---- MODULE Spec2Model ----
(***************************************************************************)
(* Sales-Target-Prediction (src/app.py): the normalisation of sheet cells  *)
(* into canonical monthly records, the aggregation of the records into     *)
(* per-group monthly series, and the per-group forecast (fit_forecast).    *)
(*                                                                         *)
(* Conventions of the model                                                *)
(*   - a pandas Timestamp that is a first-of-month date is the record      *)
(*     [year |-> y, month |-> m]; NaT is the record with year 0, month 0;  *)
(*   - a cell or series value is a record [t |-> kind, n |-> number]: a    *)
(*     number, NaN (missing) or a text; a missing string is "NaN"/"None";  *)
(*   - a text that the code scans character by character (a fiscal-year    *)
(*     label) is a sequence of one-character strings;                      *)
(*   - a pandas Series with a DatetimeIndex is a sequence of records       *)
(*     [Date |-> d, v |-> x], in index order.                              *)
(***************************************************************************)
EXTENDS Integers, Sequences, FiniteSets, TLC

VARIABLES
    pc,               \* position of the run inside the specification at hand
    parser,           \* which parser handles the cell (date assembly)
    fiscal_year,      \* the fiscal-year label of the cell's row / sheet / column
    month_col,        \* the month column of the cell
    value,            \* the cell's content
    all_data,         \* the records the parser emitted for the cell
    ts,               \* the monthly series handed to fit_forecast
    horizon,          \* the forecast horizon
    fc,               \* fit_forecast's returned forecast series
    model,            \* fit_forecast's returned model handle
    seasonal,         \* the seasonal mode fit_forecast asked the library for
    raised,           \* whether fit_forecast let an exception reach its caller
    long_all,         \* the combined long-format dataset
    aggregate_level,  \* sidebar choice "Area" | "State+Area" | "All Areas"
    selected_areas,   \* the areas chosen in the multiselect
    grp,              \* monthly totals per (GroupKey, Date)
    todo,             \* the groups the forecast loop has still to visit
    all_fc,           \* the forecast of every group visited
    profit_margin,    \* the sidebar's profit margin, in percent
    targets_df,       \* the target table make_report writes
    df_rows,          \* the rows of the sheet a parser is reading
    row_i,            \* the row, or the sheet, a loop has reached
    cur_area,         \* current_area, the area cursor of process_monthly_comparison_sheet
    route_sales_start,\* the row of the 'ROUTE SALES' heading of a yearly sheet
    tried,            \* the header rows the generic path has re-read, or the parsers the
                      \* sheet loop has called, so far
    df_processed,     \* the header row the generic path accepted
    missing_territories, \* the territories the yearly parser's first pass left out
    resolved_name,    \* territory_name, the territory the yearly parser resolved a row to
    sheets,           \* relevant_sheets still to be processed
    all_long          \* the frames collected from the sheets

vars == <<pc, parser, fiscal_year, month_col, value, all_data, ts, horizon,
          fc, model, seasonal, raised, long_all, aggregate_level, selected_areas, grp, todo,
          all_fc, profit_margin, targets_df, df_rows, row_i, cur_area, route_sales_start,
          tried, df_processed,
          missing_territories, resolved_name, sheets, all_long>>

dateVars == <<parser, fiscal_year, month_col, value, all_data>>
forecastVars == <<ts, horizon, fc, model, seasonal, raised>>
pipeVars == <<long_all, aggregate_level, selected_areas, grp, todo, all_fc,
             profit_margin, targets_df>>
sheetVars == <<df_rows, row_i, cur_area, route_sales_start, tried, df_processed,
               missing_territories, resolved_name, sheets, all_long>>

\* cell and series values
Num(n) == [t |-> "num", n |-> n]
NaN == [t |-> "nan", n |-> 0]
Text == [t |-> "text", n |-> 0]

\* what an expression yields when evaluating it raises (an IndexError of iloc)
Raise == [t |-> "raise", n |-> 0]

\* pd.notna(x) / pd.isna(x) of a value
NotNa(x) == x.t # "nan"

\* pd.to_numeric(x, errors="coerce")
ToNumeric(x) == IF x.t = "num" THEN x ELSE NaN

\* `value != 0` of a cell (NaN != 0 and "text" != 0 are both true in Python)
NotZero(x) == ~(x.t = "num" /\ x.n = 0)

NaT == [year |-> 0, month |-> 0]
NotNaT(d) == d # NaT

\* a missing string (None or NaN in an object column), and the absent model handle
NoneStr == "None"

\* the value of `y` when to_fiscal_year_start finds no year
NoYear == -1

\* the concatenation of the sequences of a sequence
RECURSIVE Flatten(_)
Flatten(ss) == IF Len(ss) = 0 THEN <<>> ELSE Head(ss) \o Flatten(Tail(ss))

\* every F(x) in turn, x in the order of s
FlatMap(F(_), s) == Flatten([i \in 1..Len(s) |-> F(s[i])])

\* the subsequence of s that satisfies P
Filter(P(_), s) == SelectSeq(s, P)

-----------------------------------------------------------------------------
(* Dates *)

\* pd.Timestamp(year=y, month=m, day=1)
Timestamp(y, m) == [year |-> y, month |-> m]

\* the position of a first-of-month date on the month axis (used to compare dates)
MonthOrdinal(d) == d.year * 12 + (d.month - 1)

DateLess(a, b) ==
    a.year < b.year \/ (a.year = b.year /\ a.month < b.month)

\* d + pd.offsets.MonthBegin(): the first day of the following month
\* (d is a first-of-month date, or a moment inside a month for Timestamp.now())
MonthBeginAfter_NoYearCarry(d) ==
    IF d.month = 12 THEN Timestamp(d.year, 1) ELSE Timestamp(d.year, d.month + 1)

MonthBeginAfter(d) ==
    IF d.month = 12 THEN Timestamp(d.year + 1, 1) ELSE Timestamp(d.year, d.month + 1)

\* pd.date_range(start, periods=n, freq="MS") for a start that is a month start
RECURSIVE DateRangePeriods(_, _)
DateRangePeriods(start, n) ==
    IF n <= 0 THEN <<>>
    ELSE <<start>> \o DateRangePeriods(MonthBeginAfter(start), n - 1)

\* pd.date_range(first, last, freq="MS"): every month start from first to last
RECURSIVE DateRangeTo(_, _)
DateRangeTo(first, last) ==
    IF DateLess(last, first) THEN <<>>
    ELSE <<first>> \o DateRangeTo(MonthBeginAfter(first), last)

\* dt - relativedelta(years=1)
MinusOneYear(d) == Timestamp(d.year - 1, d.month)

-----------------------------------------------------------------------------
(* MONTHS_MAP and the month columns *)

MonthKeys ==
    {"apr", "april", "may", "jun", "june", "jul", "july", "aug", "august",
     "sep", "sept", "september", "oct", "october", "nov", "november",
     "dec", "december", "jan", "january", "feb", "february", "mar", "march"}

MONTHS_MAP ==
    [k \in MonthKeys |->
        CASE k \in {"apr", "april"} -> 4
          [] k = "may" -> 5
          [] k \in {"jun", "june"} -> 6
          [] k \in {"jul", "july"} -> 7
          [] k \in {"aug", "august"} -> 8
          [] k \in {"sep", "sept", "september"} -> 9
          [] k \in {"oct", "october"} -> 10
          [] k \in {"nov", "november"} -> 11
          [] k \in {"dec", "december"} -> 12
          [] k \in {"jan", "january"} -> 1
          [] k \in {"feb", "february"} -> 2
          [] k \in {"mar", "march"} -> 3]

\* MONTHS_MAP.get(key, default); the default None is written 0, which Python's
\* `if month_num:` treats alike
MonthsMapGet(key, default) == IF key \in MonthKeys THEN MONTHS_MAP[key] ELSE default

\* month_cols of process_monthly_comparison_sheet
MonthlyMonthCols ==
    <<"APRIL", "MAY", "JUNE", "JULY", "AUGUST", "SEPTEMBER",
      "OCTOBER", "NOVEMBER", "DECEMBER", "JANUARY", "FEBRUARY", "MARCH">>

\* month_cols of process_territory_data_from_yearly_sheets
YearlyMonthCols ==
    <<"April", "May", "June", "July", "August", "September",
      "October", "November", "December", "January", "February", "March">>

LowerMonthNames ==
    <<"april", "may", "june", "july", "august", "september",
      "october", "november", "december", "january", "february", "march">>

\* the column headers the generic path meets in the model, with the tokens
\* mcol.strip().lower().split() yields for each
WideMonthCols ==
    {"April", "May", "Jun", "Sept", "Sales Dec", "jan 2024", "Feb", "March",
     "Mar-Total"}

Tokens(c) ==
    CASE c = "April" -> <<"april">>
      [] c = "May" -> <<"may">>
      [] c = "Jun" -> <<"jun">>
      [] c = "Sept" -> <<"sept">>
      [] c = "Sales Dec" -> <<"sales", "dec">>
      [] c = "jan 2024" -> <<"jan", "2024">>
      [] c = "Feb" -> <<"feb">>
      [] c = "March" -> <<"march">>
      [] c = "Mar-Total" -> <<"mar-total">>

\* the values current_month takes in process_comparison_report_sheet in the
\* model: the default and four keys of MONTHS_MAP found in a header, upper-cased
ReportMonths == {"JULY", "JAN", "MARCH", "APR", "SEPT"}

\* str.lower() of the month names the model meets
Lower(c) ==
    IF \E i \in 1..12 : MonthlyMonthCols[i] = c
    THEN LowerMonthNames[CHOOSE i \in 1..12 : MonthlyMonthCols[i] = c]
    ELSE IF \E i \in 1..12 : YearlyMonthCols[i] = c
    THEN LowerMonthNames[CHOOSE i \in 1..12 : YearlyMonthCols[i] = c]
    ELSE CASE c = "JAN" -> "jan"
           [] c = "APR" -> "apr"
           [] c = "SEPT" -> "sept"
           [] OTHER -> c

-----------------------------------------------------------------------------
(* to_fiscal_year_start *)

Digits == {"0", "1", "2", "3", "4", "5", "6", "7", "8", "9"}

DigitVal(c) ==
    CASE c = "0" -> 0 [] c = "1" -> 1 [] c = "2" -> 2 [] c = "3" -> 3
      [] c = "4" -> 4 [] c = "5" -> 5 [] c = "6" -> 6 [] c = "7" -> 7
      [] c = "8" -> 8 [] c = "9" -> 9

\* the positions at which re.search(r'(20\d{2})', s) can match
Matches20(s) ==
    {i \in 1..(Len(s) - 3) :
        /\ s[i] = "2"
        /\ s[i + 1] = "0"
        /\ s[i + 2] \in Digits
        /\ s[i + 3] \in Digits}

\* int() of a string of decimal digits
RECURSIVE IntOfDigits(_)
IntOfDigits(s) ==
    IF Len(s) = 0 THEN 0
    ELSE 10 * IntOfDigits(SubSeq(s, 1, Len(s) - 1)) + DigitVal(s[Len(s)])

\* the labels int(float(s)) accepts in the model: a non-empty run of digits
\* (signs, fractions, exponents and surrounding blanks are not in the label set)
IsNumberLike(s) == Len(s) > 0 /\ \A i \in 1..Len(s) : s[i] \in Digits

\* the year y of to_fiscal_year_start, or None
FiscalStartYear_NoCentury(s) ==
    IF Matches20(s) # {}
    THEN LET i == CHOOSE j \in Matches20(s) : \A k \in Matches20(s) : j <= k
         IN  IntOfDigits(SubSeq(s, i, i + 3))
    ELSE IF IsNumberLike(s) THEN IntOfDigits(s)
    ELSE NoYear

FiscalStartYear(s) ==
    IF Matches20(s) # {}
    THEN LET i == CHOOSE j \in Matches20(s) : \A k \in Matches20(s) : j <= k
         IN  IntOfDigits(SubSeq(s, i, i + 3))
    ELSE IF IsNumberLike(s)
    THEN LET y == IntOfDigits(s)
         IN  IF y < 2000 THEN 2000 + (y % 100) ELSE y
    ELSE NoYear

\* None is written NaT: the callers only test the result for truth, and a
\* Timestamp is always true
to_fiscal_year_start(ycol_value) ==
    LET y == FiscalStartYear(ycol_value)
    IN  IF y = NoYear THEN NaT ELSE Timestamp(y, 4)

-----------------------------------------------------------------------------
(* The calendar month of a record: the four parsers *)

\* fiscal-year labels met in the model, as the characters of str(label)
L_2023_2024 == <<"2", "0", "2", "3", "-", "2", "0", "2", "4">>
L_2019_20 == <<"2", "0", "1", "9", "-", "2", "0">>
L_23_24 == <<"2", "3", "-", "2", "4">>
L_FY_2021_22 == <<"F", "Y", " ", "2", "0", "2", "1", "-", "2", "2">>
L_18 == <<"1", "8">>
L_1999 == <<"1", "9", "9", "9">>
L_2018 == <<"2", "0", "1", "8">>
L_2150 == <<"2", "1", "5", "0">>
L_None == <<"N", "o", "n", "e">>

Labels ==
    {L_2023_2024, L_2019_20, L_23_24, L_FY_2021_22, L_18, L_1999, L_2018, L_2150,
     L_None}

\* '-' in s and any(char.isdigit() for char in s)
HasHyphenAndDigit(s) ==
    /\ \E i \in 1..Len(s) : s[i] = "-"
    /\ \E i \in 1..Len(s) : s[i] \in Digits

\* the date of a record, built from the fiscal-year start and the month number:
\* the branch every parser repeats (lines 349-355, 460-466, 518-524, 603-609)
FiscalDate_SameYear(fy_start, month_num) ==
    IF fy_start # NaT THEN Timestamp(fy_start.year, month_num) ELSE NaT

FiscalDate_OffByOne(fy_start, month_num) ==
    IF fy_start # NaT
    THEN IF month_num > 4
         THEN Timestamp(fy_start.year, month_num)
         ELSE Timestamp(fy_start.year + 1, month_num)
    ELSE NaT

\* the branch with the fallback "1st of month in an arbitrary year" that the
\* comment of line 663 speaks of
FiscalDate_ArbitraryYear(fy_start, month_num) ==
    IF fy_start # NaT
    THEN IF month_num >= 4
         THEN Timestamp(fy_start.year, month_num)
         ELSE Timestamp(fy_start.year + 1, month_num)
    ELSE Timestamp(2000, month_num)

FiscalDate(fy_start, month_num) ==
    IF fy_start # NaT
    THEN IF month_num >= 4
         THEN Timestamp(fy_start.year, month_num)
         ELSE Timestamp(fy_start.year + 1, month_num)
    ELSE NaT

\* result_df.dropna(subset=["Sales"])
DropNaSales(rows) == LET Keep(r) == NotNa(r.Sales) IN Filter(Keep, rows)

\* process_monthly_comparison_sheet: the records of one month cell of a data row
MonthlyComparisonCell(current_area, year, mcol, val, sheet_name) ==
    IF NotNa(val) /\ NotZero(val)
    THEN LET month_num == MonthsMapGet(Lower(mcol), 0)
         IN  IF month_num # 0
             THEN <<[Area |-> current_area,
                     State |-> IF current_area \in {"KERALA", "KARNATAKA", "TAMIL NADU"}
                               THEN current_area ELSE NoneStr,
                     FY |-> year,
                     MonthName |-> mcol,
                     Date |-> FiscalDate(to_fiscal_year_start(year), month_num),
                     Month |-> month_num,
                     Sales |-> ToNumeric(val),
                     SourceSheet |-> sheet_name]>>
             ELSE <<>>
    ELSE <<>>

\* process_territory_data_from_yearly_sheets: the records of one month cell of a
\* territory row (both passes run the same body)
TerritoryCell(territory_name, sheet_label, mcol, val, sheet_name) ==
    IF NotNa(val) /\ NotZero(val)
    THEN LET month_num == MonthsMapGet(Lower(mcol), 0)
         IN  IF month_num # 0
             THEN <<[Area |-> territory_name,
                     State |-> "KERALA",
                     FY |-> sheet_label,
                     MonthName |-> mcol,
                     Date |-> FiscalDate(to_fiscal_year_start(sheet_label), month_num),
                     Month |-> month_num,
                     Sales |-> ToNumeric(val),
                     SourceSheet |-> sheet_name]>>
             ELSE <<>>
    ELSE <<>>

\* process_comparison_report_sheet: the records of one year cell of an area row
ComparisonReportCell(area_name, year_col, current_month, val, sheet_name) ==
    LET month_num == MonthsMapGet(Lower(current_month), 7)
    IN  IF NotNa(val) /\ NotZero(val)
        THEN <<[Area |-> area_name,
                State |-> NoneStr,
                FY |-> year_col,
                MonthName |-> current_month,
                Date |-> FiscalDate(to_fiscal_year_start(year_col), month_num),
                Month |-> month_num,
                Sales |-> ToNumeric(val),
                SourceSheet |-> sheet_name]>>
        ELSE <<>>

\* long_from_wide: the month number of a month column, 0 when the column is skipped
WideMonthNumber(mcol) ==
    LET toks == Tokens(mcol)
        mkey == toks[Len(toks)]
        hits == {i \in 1..Len(toks) : toks[i] \in MonthKeys}
    IN  IF mkey \in MonthKeys THEN MONTHS_MAP[mkey]
        ELSE IF hits # {}
        THEN MONTHS_MAP[toks[CHOOSE i \in hits : \A j \in hits : i <= j]]
        ELSE 0

\* long_from_wide: a row of df is [Area, State, FY, cells], cells a function from
\* the month columns to their values; area_col, state_col, year_col are a column
\* name or NoneStr
LongFromWideParts(row, area_col, state_col, year_col, month_cols) ==
    LET fy_start == IF year_col # NoneStr THEN to_fiscal_year_start(row.FY) ELSE NaT
        Part(mcol) ==
            LET mnum == WideMonthNumber(mcol)
            IN  IF mnum = 0 THEN <<>>
                ELSE <<[Area |-> IF area_col # NoneStr THEN row.Area ELSE "All",
                        State |-> IF state_col # NoneStr THEN row.State ELSE NoneStr,
                        FY |-> IF year_col # NoneStr THEN row.FY ELSE L_None,
                        MonthName |-> mcol,
                        Date |-> FiscalDate(fy_start, mnum),
                        Month |-> mnum,
                        Sales |-> ToNumeric(row.cells[mcol])]>>
    IN  FlatMap(Part, month_cols)

\* build_date inferring the date from the month alone
BuildDate_FromMonth(r) ==
    IF r.Date = NaT THEN Timestamp(2000, r.Month) ELSE r.Date

\* long_from_wide: build_date, the post-hoc inference of a missing date
BuildDate(r) ==
    LET FY_start == to_fiscal_year_start(r.FY)
    IN  IF r.Date = NaT /\ FY_start # NaT
        THEN Timestamp(IF r.Month >= 4 THEN FY_start.year ELSE FY_start.year + 1, r.Month)
        ELSE r.Date

long_from_wide(df, area_col, state_col, year_col, month_cols) ==
    LET RowParts(row) == LongFromWideParts(row, area_col, state_col, year_col, month_cols)
        long == DropNaSales(FlatMap(RowParts, df))
        anyNaT == \E i \in 1..Len(long) : long[i].Date = NaT
    IN  IF anyNaT /\ year_col # NoneStr
        THEN [i \in 1..Len(long) |-> [long[i] EXCEPT !.Date = BuildDate(long[i])]]
        ELSE long

-----------------------------------------------------------------------------
(* SpecDate: one cell of a sheet, handled by the parser its sheet is           *)
(* dispatched to                                                               *)

CellValues == {NaN, Num(0), Num(150000), Num(-20000), Text}

DateIdle ==
    /\ parser = NoneStr
    /\ fiscal_year = <<>>
    /\ month_col = NoneStr
    /\ value = NaN
    /\ all_data = <<>>

ForecastIdle ==
    /\ ts = <<>>
    /\ horizon = 0
    /\ fc = <<>>
    /\ model = NoneStr
    /\ seasonal = NoneStr
    /\ raised = FALSE

PipeIdle ==
    /\ long_all = <<>>
    /\ aggregate_level = "Area"
    /\ selected_areas = {}
    /\ grp = <<>>
    /\ todo = <<>>
    /\ all_fc = <<>>
    /\ profit_margin = 15
    /\ targets_df = <<>>

SheetIdle ==
    /\ df_rows = <<>>
    /\ row_i = 0
    /\ cur_area = NoneStr
    /\ route_sales_start = -1
    /\ tried = <<>>
    /\ df_processed = -1
    /\ missing_territories = {}
    /\ resolved_name = NoneStr
    /\ sheets = <<>>
    /\ all_long = <<>>

\* the month columns a parser reads
ParserMonthCols(p) ==
    CASE p = "monthly" -> {MonthlyMonthCols[i] : i \in 1..12}
      [] p = "yearly" -> {YearlyMonthCols[i] : i \in 1..12}
      [] p = "report" -> ReportMonths
      [] p = "wide" -> WideMonthCols

InitDate ==
    /\ pc = "cell"
    /\ parser \in {"monthly", "yearly", "report", "wide"}
    /\ fiscal_year \in Labels
       \* a data row (line 336), a yearly sheet name (line 1081) and a year
       \* column (line 565) each hold a hyphen and a digit
    /\ (parser # "wide" => HasHyphenAndDigit(fiscal_year))
    /\ month_col \in ParserMonthCols(parser)
    /\ value \in CellValues
    /\ all_data = <<>>
    /\ ForecastIdle
    /\ PipeIdle
    /\ SheetIdle

EmitMonthlyComparison ==
    /\ pc = "cell"
    /\ parser = "monthly"
    /\ all_data' = DropNaSales(
           MonthlyComparisonCell("KERALA", fiscal_year, month_col, value,
                                 "Monthly Comparison"))
    /\ pc' = "emitted"
    /\ UNCHANGED <<parser, fiscal_year, month_col, value, forecastVars, pipeVars, sheetVars>>

EmitYearlyTerritory ==
    /\ pc = "cell"
    /\ parser = "yearly"
    /\ all_data' = DropNaSales(
           TerritoryCell("KOLLAM", fiscal_year, month_col, value, "yearly"))
    /\ pc' = "emitted"
    /\ UNCHANGED <<parser, fiscal_year, month_col, value, forecastVars, pipeVars, sheetVars>>

EmitComparisonReport ==
    /\ pc = "cell"
    /\ parser = "report"
    /\ all_data' = DropNaSales(
           ComparisonReportCell("KOLLAM", fiscal_year, month_col, value,
                                "Comparison Report"))
    /\ pc' = "emitted"
    /\ UNCHANGED <<parser, fiscal_year, month_col, value, forecastVars, pipeVars, sheetVars>>

EmitLongFromWide ==
    /\ pc = "cell"
    /\ parser = "wide"
    /\ \E year_col \in {"Year", NoneStr} :
          all_data' = long_from_wide(
              <<[Area |-> "KOLLAM", State |-> NoneStr, FY |-> fiscal_year,
                 cells |-> [c \in {month_col} |-> value]]>>,
              "Area", NoneStr, year_col, <<month_col>>)
    /\ pc' = "emitted"
    /\ UNCHANGED <<parser, fiscal_year, month_col, value, forecastVars, pipeVars, sheetVars>>

NextDate ==
    \/ EmitMonthlyComparison
    \/ EmitYearlyTerritory
    \/ EmitComparisonReport
    \/ EmitLongFromWide

SpecDate == InitDate /\ [][NextDate]_vars

\* C1: in every parser, a record with a resolved fiscal start year Y and a month
\* number M in 1..12 is dated the first day of month M of year Y when M >= 4, and
\* of year Y+1 when M <= 3.
C1_FiscalCalendar ==
    \A i \in 1..Len(all_data) :
        LET r == all_data[i]
            Y == FiscalStartYear(r.FY)
        IN  (Y # NoYear /\ r.Month \in 1..12) =>
                /\ r.Date.month = r.Month
                /\ (r.Month >= 4 => r.Date.year = Y)
                /\ (r.Month <= 3 => r.Date.year = Y + 1)

\* a January-to-March record of fiscal year 2023-2024, dated in 2024
C1_Witness ==
    /\ pc = "emitted"
    /\ \E i \in 1..Len(all_data) :
          /\ all_data[i].FY = L_2023_2024
          /\ all_data[i].Month <= 3
          /\ all_data[i].Date.year = 2024

\* C15 as claimed: no record of the canonical dataset has a month value that is
\* null, non-numeric or exactly zero, whichever parser emitted it.
C15_NoZeroRecords ==
    \A i \in 1..Len(all_data) :
        all_data[i].Sales.t = "num" /\ all_data[i].Sales.n # 0

\* the fiscal start year C20 describes, read off the label s: the first run
\* "20dd", else the label as a number n (n, or 2000 + n mod 100 below 2000)
C20_Year(s) ==
    LET runs == {i \in 1..(Len(s) - 3) :
                    <<s[i], s[i + 1]>> = <<"2", "0">> /\ {s[i + 2], s[i + 3]} \subseteq Digits}
        n == IntOfDigits(s)
    IN  IF runs # {}
        THEN LET i == CHOOSE j \in runs : \A k \in runs : j <= k
             IN  2000 + 10 * DigitVal(s[i + 2]) + DigitVal(s[i + 3])
        ELSE IF Len(s) > 0 /\ (\A i \in 1..Len(s) : s[i] \in Digits)
        THEN (IF n >= 2000 THEN n ELSE 2000 + (n % 100))
        ELSE NoYear

-----------------------------------------------------------------------------
(* SpecMonthly: process_monthly_comparison_sheet, row by row *)

\* the characters of the strings that the parsers scan
Chars(s) ==
    CASE s = "KERALA" -> <<"K", "E", "R", "A", "L", "A">>
      [] s = "KARNATAKA" -> <<"K", "A", "R", "N", "A", "T", "A", "K", "A">>
      [] s = "TAMIL NADU" -> <<"T", "A", "M", "I", "L", " ", "N", "A", "D", "U">>
      [] s = "OTHER STATES" -> <<"O", "T", "H", "E", "R", " ", "S", "T", "A", "T", "E", "S">>
      [] s = "MSD INSIDE KERALA" ->
           <<"M", "S", "D", " ", "I", "N", "S", "I", "D", "E", " ", "K", "E", "R", "A",
             "L", "A">>
      [] s = "MSD OUTSIDE KERALA" ->
           <<"M", "S", "D", " ", "O", "U", "T", "S", "I", "D", "E", " ", "K", "E", "R",
             "A", "L", "A">>
      [] s = "TOTAL" -> <<"T", "O", "T", "A", "L">>
      [] s = "2018-2019" -> <<"2", "0", "1", "8", "-", "2", "0", "1", "9">>
      [] s = "2019-2020" -> <<"2", "0", "1", "9", "-", "2", "0", "2", "0">>
      [] s = "TRIVANDRUM" -> <<"T", "R", "I", "V", "A", "N", "D", "R", "U", "M">>
      [] s = "NEYYATINKARA" -> <<"N", "E", "Y", "Y", "A", "T", "I", "N", "K", "A", "R", "A">>
      [] s = "KOLLAM" -> <<"K", "O", "L", "L", "A", "M">>
      [] s = "PATHANAMTHITTA" ->
           <<"P", "A", "T", "H", "A", "N", "A", "M", "T", "H", "I", "T", "T", "A">>
      [] s = "KOTTAYAM" -> <<"K", "O", "T", "T", "A", "Y", "A", "M">>
      [] s = "ALAPPUZHA" -> <<"A", "L", "A", "P", "P", "U", "Z", "H", "A">>
      [] s = "IDUKKI" -> <<"I", "D", "U", "K", "K", "I">>
      [] s = "MOOVATTUPUZHA" ->
           <<"M", "O", "O", "V", "A", "T", "T", "U", "P", "U", "Z", "H", "A">>
      [] s = "ERNAMKULAM" -> <<"E", "R", "N", "A", "M", "K", "U", "L", "A", "M">>
      [] s = "PALAKKAD" -> <<"P", "A", "L", "A", "K", "K", "A", "D">>
      [] s = "THRISSUR" -> <<"T", "H", "R", "I", "S", "S", "U", "R">>
      [] s = "EDAPAL" -> <<"E", "D", "A", "P", "A", "L">>
      [] s = "MALAPPURAM" -> <<"M", "A", "L", "A", "P", "P", "U", "R", "A", "M">>
      [] s = "KOZHIKODE CITY" ->
           <<"K", "O", "Z", "H", "I", "K", "O", "D", "E", " ", "C", "I", "T", "Y">>
      [] s = "VADAKARA" -> <<"V", "A", "D", "A", "K", "A", "R", "A">>
      [] s = "WAYANAD" -> <<"W", "A", "Y", "A", "N", "A", "D">>
      [] s = "THALASSERY" -> <<"T", "H", "A", "L", "A", "S", "S", "E", "R", "Y">>
      [] s = "KANNUR" -> <<"K", "A", "N", "N", "U", "R">>
      [] s = "KASARGOD" -> <<"K", "A", "S", "A", "R", "G", "O", "D">>
      [] s = "TVM" -> <<"T", "V", "M">>
      [] s = "ERNAKULAM" -> <<"E", "R", "N", "A", "K", "U", "L", "A", "M">>
      [] s = "KASARGODE" -> <<"K", "A", "S", "A", "R", "G", "O", "D", "E">>
      [] s = "EDAPPAL" -> <<"E", "D", "A", "P", "P", "A", "L">>
      [] s = "NEYYATTINKARA" ->
           <<"N", "E", "Y", "Y", "A", "T", "T", "I", "N", "K", "A", "R", "A">>
      [] s = "ROUTE SALES" -> <<"R", "O", "U", "T", "E", " ", "S", "A", "L", "E", "S">>
      [] s = "NAN" -> <<"N", "A", "N">>
      [] s = "TVM SOUTH" -> <<"T", "V", "M", " ", "S", "O", "U", "T", "H">>
      [] s = "ERNAKULAM CITY" ->
           <<"E", "R", "N", "A", "K", "U", "L", "A", "M", " ", "C", "I", "T", "Y">>
      [] s = "KANNUR KOLLAM" ->
           <<"K", "A", "N", "N", "U", "R", " ", "K", "O", "L", "L", "A", "M">>
      [] s = "KOLLAM CITY" -> <<"K", "O", "L", "L", "A", "M", " ", "C", "I", "T", "Y">>
      [] s = "CASH SALES" -> <<"C", "A", "S", "H", " ", "S", "A", "L", "E", "S">>
      [] s = "apr" -> <<"a", "p", "r">>
      [] s = "april" -> <<"a", "p", "r", "i", "l">>
      [] s = "may" -> <<"m", "a", "y">>
      [] s = "jun" -> <<"j", "u", "n">>
      [] s = "june" -> <<"j", "u", "n", "e">>
      [] s = "jul" -> <<"j", "u", "l">>
      [] s = "july" -> <<"j", "u", "l", "y">>
      [] s = "aug" -> <<"a", "u", "g">>
      [] s = "august" -> <<"a", "u", "g", "u", "s", "t">>
      [] s = "sep" -> <<"s", "e", "p">>
      [] s = "sept" -> <<"s", "e", "p", "t">>
      [] s = "september" -> <<"s", "e", "p", "t", "e", "m", "b", "e", "r">>
      [] s = "oct" -> <<"o", "c", "t">>
      [] s = "october" -> <<"o", "c", "t", "o", "b", "e", "r">>
      [] s = "nov" -> <<"n", "o", "v">>
      [] s = "november" -> <<"n", "o", "v", "e", "m", "b", "e", "r">>
      [] s = "dec" -> <<"d", "e", "c">>
      [] s = "december" -> <<"d", "e", "c", "e", "m", "b", "e", "r">>
      [] s = "jan" -> <<"j", "a", "n">>
      [] s = "january" -> <<"j", "a", "n", "u", "a", "r", "y">>
      [] s = "feb" -> <<"f", "e", "b">>
      [] s = "february" -> <<"f", "e", "b", "r", "u", "a", "r", "y">>
      [] s = "mar" -> <<"m", "a", "r">>
      [] s = "march" -> <<"m", "a", "r", "c", "h">>
      [] s = "area" -> <<"a", "r", "e", "a">>
      [] s = "region" -> <<"r", "e", "g", "i", "o", "n">>
      [] s = "territory" -> <<"t", "e", "r", "r", "i", "t", "o", "r", "y">>
      [] s = "zone" -> <<"z", "o", "n", "e">>
      [] s = "state" -> <<"s", "t", "a", "t", "e">>
      [] s = "year" -> <<"y", "e", "a", "r">>
      [] s = "fy" -> <<"f", "y">>
      [] s = "financial year" ->
           <<"f", "i", "n", "a", "n", "c", "i", "a", "l", " ", "y", "e", "a", "r">>
      [] s = "fiscal" -> <<"f", "i", "s", "c", "a", "l">>
      [] s = "yr" -> <<"y", "r">>
      [] s = "particular" -> <<"p", "a", "r", "t", "i", "c", "u", "l", "a", "r">>
      [] s = "particulars" -> <<"p", "a", "r", "t", "i", "c", "u", "l", "a", "r", "s">>
      [] s = "remarks" -> <<"r", "e", "m", "a", "r", "k", "s">>
      [] s = "TAMIL" -> <<"T", "A", "M", "I", "L">>
      [] s = "ZONE" -> <<"Z", "O", "N", "E">>
      [] s = "REGION" -> <<"R", "E", "G", "I", "O", "N">>
      [] s = "STATE" -> <<"S", "T", "A", "T", "E">>
      [] s = "MSD" -> <<"M", "S", "D">>
      [] s = "KERALA ZONE" -> <<"K", "E", "R", "A", "L", "A", " ", "Z", "O", "N", "E">>
      [] s = "Sales2023" -> <<"S", "a", "l", "e", "s", "2", "0", "2", "3">>
      [] s = "Summary" -> <<"S", "u", "m", "m", "a", "r", "y">>
      [] s = "MONTHLY COMPARISON" ->
           <<"M", "O", "N", "T", "H", "L", "Y", " ", "C", "O", "M", "P", "A", "R", "I",
             "S", "O", "N">>
      [] s = "COMPARISON REPORT" ->
           <<"C", "O", "M", "P", "A", "R", "I", "S", "O", "N", " ", "R", "E", "P", "O",
             "R", "T">>
      [] s = "Sheet1" -> <<"S", "h", "e", "e", "t", "1">>
      [] s = "SHEET1" -> <<"S", "H", "E", "E", "T", "1">>
      [] s = "2017-2018" -> <<"2", "0", "1", "7", "-", "2", "0", "1", "8">>
      [] s = "2023-2024" -> <<"2", "0", "2", "3", "-", "2", "0", "2", "4">>
      [] s = "Monthly Comparison 2023-24" ->
           <<"M", "o", "n", "t", "h", "l", "y", " ", "C", "o", "m", "p", "a", "r", "i",
             "s", "o", "n", " ", "2", "0", "2", "3", "-", "2", "4">>
      [] s = "MONTHLY COMPARISON 2023-24" ->
           <<"M", "O", "N", "T", "H", "L", "Y", " ", "C", "O", "M", "P", "A", "R", "I",
             "S", "O", "N", " ", "2", "0", "2", "3", "-", "2", "4">>
      [] s = "Monthly Comparison Report" ->
           <<"M", "o", "n", "t", "h", "l", "y", " ", "C", "o", "m", "p", "a", "r", "i",
             "s", "o", "n", " ", "R", "e", "p", "o", "r", "t">>
      [] s = "MONTHLY COMPARISON REPORT" ->
           <<"M", "O", "N", "T", "H", "L", "Y", " ", "C", "O", "M", "P", "A", "R", "I",
             "S", "O", "N", " ", "R", "E", "P", "O", "R", "T">>
      [] s = "Comparison Report 2023-24" ->
           <<"C", "o", "m", "p", "a", "r", "i", "s", "o", "n", " ", "R", "e", "p", "o",
             "r", "t", " ", "2", "0", "2", "3", "-", "2", "4">>
      [] s = "COMPARISON REPORT 2023-24" ->
           <<"C", "O", "M", "P", "A", "R", "I", "S", "O", "N", " ", "R", "E", "P", "O",
             "R", "T", " ", "2", "0", "2", "3", "-", "2", "4">>
      [] s = "SUMMARY" -> <<"S", "U", "M", "M", "A", "R", "Y">>
      [] s = "SALES2023" -> <<"S", "A", "L", "E", "S", "2", "0", "2", "3">>
      [] s = "Q1-Plan" -> <<"Q", "1", "-", "P", "l", "a", "n">>
      [] s = "Q1-PLAN" -> <<"Q", "1", "-", "P", "L", "A", "N">>

\* `p in s` of two strings
Contains(s, p) ==
    LET sc == Chars(s)
        pcs == Chars(p)
    IN  \E i \in 1..(Len(sc) - Len(pcs) + 1) : SubSeq(sc, i, i + Len(pcs) - 1) = pcs

area_patterns ==
    <<"KERALA", "KARNATAKA", "TAMIL NADU", "OTHER STATES", "MSD INSIDE KERALA",
      "MSD OUTSIDE KERALA">>

\* lines 330-333: the cursor after a row whose first cell is first_val; the
\* patterns are tried in list order and the first one contained wins
AreaAfter(area, first_val) ==
    LET hits == {k \in 1..Len(area_patterns) : Contains(first_val, area_patterns[k])}
    IN  IF hits = {} THEN area
        ELSE area_patterns[CHOOSE k \in hits : \A j \in hits : k <= j]

\* the month columns of df.columns in the model (the other ten are absent and
\* `if month_col in df.columns` skips them)
MonthlySheetCols == <<"APRIL", "JANUARY">>

\* lines 336-366: the records of one row under the cursor `area`
MonthlyRowRecords(area, row) ==
    LET Cell(mcol) ==
            MonthlyComparisonCell(area, Chars(row.first), mcol, row.cells[mcol],
                                  "Monthly Comparison")
    IN  IF HasHyphenAndDigit(Chars(row.first)) THEN FlatMap(Cell, MonthlySheetCols) ELSE <<>>

\* the most rows a sheet holds in the model
MaxRows == 3

\* the first cells of the model, as str(row.iloc[0]).strip().upper() leaves them
MonthlyFirstCells ==
    {area_patterns[k] : k \in 1..Len(area_patterns)} \cup {"TOTAL", "2018-2019", "2019-2020"}

\* a row: its first cell and its month cells; only a fiscal-year row has values
MonthlyRows ==
    {[first |-> f, cells |-> [c \in {"APRIL", "JANUARY"} |-> NaN]] :
        f \in MonthlyFirstCells \ {"2018-2019", "2019-2020"}}
    \cup {[first |-> f,
           cells |-> [c \in {"APRIL", "JANUARY"} |-> IF c = "APRIL" THEN a ELSE Num(90000)]] :
          f \in {"2018-2019", "2019-2020"}, a \in {Num(150000), Num(0)}}

InitMonthly ==
    /\ pc = "scan"
    /\ df_rows \in UNION {[1..n -> MonthlyRows] : n \in 1..MaxRows}
    /\ row_i = 0
    /\ cur_area = "KERALA"
    /\ all_data = <<>>
    /\ parser = "monthly"
    /\ fiscal_year = <<>>
    /\ month_col = NoneStr
    /\ value = NaN
    /\ route_sales_start = -1
    /\ tried = <<>>
    /\ df_processed = -1
    /\ missing_territories = {}
    /\ resolved_name = NoneStr
    /\ sheets = <<>>
    /\ all_long = <<>>
    /\ ForecastIdle
    /\ PipeIdle

\* lines 326-366: one turn of the row loop
ScanMonthlyRow ==
    /\ pc = "scan"
    /\ row_i < Len(df_rows)
    /\ row_i' = row_i + 1
    /\ cur_area' = AreaAfter(cur_area, df_rows[row_i'].first)
    /\ all_data' = all_data \o MonthlyRowRecords(cur_area', df_rows[row_i'])
    /\ UNCHANGED <<pc, df_rows, parser, fiscal_year, month_col, value, route_sales_start,
                   tried, df_processed, missing_territories, resolved_name, sheets,
                   all_long, forecastVars, pipeVars>>

\* lines 368-373: the frame returned
ReturnMonthly ==
    /\ pc = "scan"
    /\ row_i = Len(df_rows)
    /\ all_data' = DropNaSales(all_data)
    /\ pc' = "returned"
    /\ UNCHANGED <<df_rows, row_i, cur_area, parser, fiscal_year, month_col, value,
                   route_sales_start, tried, df_processed, missing_territories,
                   resolved_name, sheets, all_long, forecastVars, pipeVars>>

NextMonthly ==
    \/ ScanMonthlyRow
    \/ ReturnMonthly

SpecMonthly == InitMonthly /\ [][NextMonthly]_vars

\* the marker named by the latest marker row among the first k rows, if any
RECURSIVE LastMarker(_, _)
LastMarker(rows, k) ==
    IF k = 0 THEN NoneStr
    ELSE IF rows[k].first \in {area_patterns[j] : j \in 1..Len(area_patterns)}
    THEN rows[k].first
    ELSE LastMarker(rows, k - 1)

\* C19 as claimed: scanning a row leaves the cursor at the marker of the latest
\* marker row so far (each marker of the fixed set, "MSD INSIDE KERALA" and
\* "MSD OUTSIDE KERALA" included), and the records the row emits carry it.
C19_MarkerCursor ==
    [][(row_i' = row_i + 1 /\ LastMarker(df_rows, row_i') # NoneStr) =>
          /\ cur_area' = LastMarker(df_rows, row_i')
          /\ \A j \in (Len(all_data) + 1)..Len(all_data') :
                all_data'[j].Area = LastMarker(df_rows, row_i')]_vars

-----------------------------------------------------------------------------
(* SpecYearly: process_territory_data_from_yearly_sheets, row by row *)

kerala_territories ==
    <<"TRIVANDRUM", "NEYYATINKARA", "KOLLAM", "PATHANAMTHITTA", "KOTTAYAM",
      "ALAPPUZHA", "IDUKKI", "MOOVATTUPUZHA", "ERNAMKULAM", "PALAKKAD",
      "THRISSUR", "EDAPAL", "MALAPPURAM", "KOZHIKODE CITY", "VADAKARA",
      "WAYANAD", "THALASSERY", "KANNUR", "KASARGOD">>

KeralaSet == {kerala_territories[k] : k \in 1..Len(kerala_territories)}

\* lines 432-446: the if/elif chain of one turn of the territory loop
TerritoryMatch_NoAlias(t, area_name) == Contains(area_name, t)

TerritoryMatch(t, area_name) ==
    \/ t = "TRIVANDRUM" /\ (Contains(area_name, "TRIVANDRUM") \/ Contains(area_name, "TVM"))
    \/ t = "ERNAMKULAM" /\ Contains(area_name, "ERNAKULAM")
    \/ t = "KASARGOD" /\ Contains(area_name, "KASARGODE")
    \/ t = "EDAPAL" /\ Contains(area_name, "EDAPPAL")
    \/ Contains(area_name, t)

\* lines 429-446: territory_name, None when the loop ends without a break
CanonicalTerritory_PassThrough(area_name) ==
    LET hits == {k \in 1..Len(kerala_territories) :
                    TerritoryMatch(kerala_territories[k], area_name)}
    IN  IF hits = {} THEN area_name
        ELSE kerala_territories[CHOOSE k \in hits : \A j \in hits : k <= j]

CanonicalTerritory(area_name) ==
    LET hits == {k \in 1..Len(kerala_territories) :
                    TerritoryMatch(kerala_territories[k], area_name)}
    IN  IF hits = {} THEN NoneStr
        ELSE kerala_territories[CHOOSE k \in hits : \A j \in hits : k <= j]

\* line 425: the rows the first pass skips (a NaN cell reads 'NAN')
RouteSkip ==
    {"NAN", "", "TOTAL", "INSIDE KERALA", "CENTRAL ZONE", "NORTH ZONE", "SOUTH ZONE"}

\* line 490: the rows the second pass skips
SecondSkip == {"NAN", "PARTICULARS"}

\* lines 496-504: the if/elif chain of the second pass
MissingMatch(missing_territory, area_name) ==
    \/ missing_territory = "NEYYATINKARA" /\ Contains(area_name, "NEYYATTINKARA")
    \/ missing_territory = "EDAPAL" /\ Contains(area_name, "EDAPPAL")
    \/ Contains(area_name, missing_territory)

\* the month columns of df.columns in the model
YearlySheetCols == <<"April", "January">>

\* lines 450-477 and 508-535: the records of a row resolved to territory t; the
\* sheet is named "2023-2024"
YearlyRowRecords(t, row) ==
    LET Cell(mcol) == TerritoryCell(t, L_2023_2024, mcol, row.cells[mcol], "2023-2024")
    IN  IF t = NoneStr THEN <<>> ELSE FlatMap(Cell, YearlySheetCols)

\* the first cells of the model, as str(...).strip().upper() leaves them
YearlyCoreLabels ==
    {"ROUTE SALES", "TOTAL", "KOLLAM", "KOLLAM CITY", "NEYYATTINKARA", "CASH SALES",
     "KANNUR KOLLAM"}

YearlyLabels ==
    KeralaSet \cup YearlyCoreLabels
    \cup {"TVM SOUTH", "ERNAKULAM CITY", "KASARGODE", "EDAPPAL", "NAN"}

SoldCells == [c \in {"April", "January"} |-> IF c = "April" THEN Num(150000) ELSE Num(90000)]
EmptyCells == [c \in {"April", "January"} |-> IF c = "April" THEN Num(0) ELSE NaN]

\* sheets of up to MaxRows rows over the core labels, and every label of the
\* model once as the row under the 'ROUTE SALES' heading and once as the row
\* above it
YearlySheets ==
    UNION {[1..n -> {[first |-> f, cells |-> SoldCells] : f \in YearlyCoreLabels}
                    \cup {[first |-> "KOLLAM", cells |-> EmptyCells]}] : n \in 1..MaxRows}
    \cup {<<[first |-> "ROUTE SALES", cells |-> EmptyCells], [first |-> f, cells |-> SoldCells]>> :
             f \in YearlyLabels}
    \cup {<<[first |-> f, cells |-> SoldCells], [first |-> "ROUTE SALES", cells |-> EmptyCells]>> :
             f \in YearlyLabels}

InitYearly ==
    /\ pc = "find"
    /\ df_rows \in YearlySheets
    /\ row_i = 0
    /\ route_sales_start = -1
    /\ missing_territories = {}
    /\ resolved_name = NoneStr
    /\ all_data = <<>>
    /\ parser = "yearly"
    /\ fiscal_year = L_2023_2024
    /\ month_col = NoneStr
    /\ value = NaN
    /\ cur_area = NoneStr
    /\ tried = <<>>
    /\ df_processed = -1
    /\ sheets = <<>>
    /\ all_long = <<>>
    /\ ForecastIdle
    /\ PipeIdle

\* lines 406-412 without the return of lines 414-415: the whole-sheet pass
\* runs although there is no 'ROUTE SALES' row
FindRouteSales_FallThrough ==
    /\ pc = "find"
    /\ LET hits == {i \in 1..Len(df_rows) : Contains(df_rows[i].first, "ROUTE SALES")}
       IN  IF hits = {}
           THEN /\ pc' = "route"
                /\ row_i' = Len(df_rows)
                /\ UNCHANGED route_sales_start
           ELSE /\ route_sales_start' = CHOOSE i \in hits : \A j \in hits : i <= j
                /\ row_i' = route_sales_start'
                /\ pc' = "route"
    /\ UNCHANGED <<df_rows, missing_territories, resolved_name, all_data, parser,
                   fiscal_year, month_col, value, cur_area, tried, df_processed, sheets,
                   all_long, forecastVars, pipeVars>>

\* lines 406-415: the first row holding 'ROUTE SALES'; without one the parser
\* returns no frame
FindRouteSales ==
    /\ pc = "find"
    /\ LET hits == {i \in 1..Len(df_rows) : Contains(df_rows[i].first, "ROUTE SALES")}
       IN  IF hits = {}
           THEN /\ pc' = "returned"
                /\ UNCHANGED <<route_sales_start, row_i>>
           ELSE /\ route_sales_start' = CHOOSE i \in hits : \A j \in hits : i <= j
                /\ row_i' = route_sales_start'
                /\ pc' = "route"
    /\ UNCHANGED <<df_rows, missing_territories, resolved_name, all_data, parser,
                   fiscal_year, month_col, value, cur_area, tried, df_processed, sheets,
                   all_long, forecastVars, pipeVars>>

\* lines 418-479: one turn of the Route Sales loop, which reads at most the 99
\* rows under the heading
RouteRow ==
    /\ pc = "route"
    /\ row_i < Len(df_rows)
    /\ row_i + 1 < route_sales_start + 100
    /\ row_i' = row_i + 1
    /\ LET row == df_rows[row_i']
       IN  /\ resolved_name' = IF row.first \in RouteSkip THEN NoneStr
                               ELSE CanonicalTerritory(row.first)
           /\ all_data' = all_data \o YearlyRowRecords(resolved_name', row)
    /\ UNCHANGED <<pc, df_rows, route_sales_start, missing_territories, parser,
                   fiscal_year, month_col, value, cur_area, tried, df_processed, sheets,
                   all_long, forecastVars, pipeVars>>

\* lines 481-483: the territories without a record so far
StartSecondPass ==
    /\ pc = "route"
    /\ ~(row_i < Len(df_rows) /\ row_i + 1 < route_sales_start + 100)
    /\ missing_territories' = KeralaSet \ {all_data[i].Area : i \in 1..Len(all_data)}
    /\ row_i' = IF missing_territories' = {} THEN Len(df_rows) ELSE 0
    /\ pc' = "second"
    /\ UNCHANGED <<df_rows, route_sales_start, resolved_name, all_data, parser,
                   fiscal_year, month_col, value, cur_area, tried, df_processed, sheets,
                   all_long, forecastVars, pipeVars>>

\* lines 486-537: one turn of the whole-sheet loop. missing_territories is a
\* Python set of strings: its iteration order is not fixed, so any missing
\* territory that matches the row can be the one the loop breaks at
SecondPassRow ==
    /\ pc = "second"
    /\ row_i < Len(df_rows)
    /\ row_i' = row_i + 1
    /\ LET row == df_rows[row_i']
           found == IF row.first \in SecondSkip THEN {}
                    ELSE {m \in missing_territories : MissingMatch(m, row.first)}
       IN  IF found = {}
           THEN resolved_name' = NoneStr /\ all_data' = all_data
           ELSE \E t \in found :
                   /\ resolved_name' = t
                   /\ all_data' = all_data \o YearlyRowRecords(t, row)
    /\ UNCHANGED <<pc, df_rows, route_sales_start, missing_territories, parser,
                   fiscal_year, month_col, value, cur_area, tried, df_processed, sheets,
                   all_long, forecastVars, pipeVars>>

\* lines 539-544: the frame returned
ReturnYearly ==
    /\ pc = "second"
    /\ row_i = Len(df_rows)
    /\ all_data' = DropNaSales(all_data)
    /\ pc' = "returned"
    /\ UNCHANGED <<df_rows, row_i, route_sales_start, missing_territories, resolved_name,
                   parser, fiscal_year, month_col, value, cur_area, tried, df_processed,
                   sheets, all_long, forecastVars, pipeVars>>

NextYearly ==
    \/ FindRouteSales
    \/ RouteRow
    \/ StartSecondPass
    \/ SecondPassRow
    \/ ReturnYearly

SpecYearly == InitYearly /\ [][NextYearly]_vars

\* the alias the claim gives a canonical name, the name itself when it has none
C16_Alias(t) ==
    CASE t = "TRIVANDRUM" -> "TVM"
      [] t = "ERNAMKULAM" -> "ERNAKULAM"
      [] t = "KASARGOD" -> "KASARGODE"
      [] t = "EDAPAL" -> "EDAPPAL"
      [] OTHER -> t

\* the list positions whose canonical name, or its alias, occurs in the label
C16_Matching(label) ==
    {k \in 1..Len(kerala_territories) :
        \/ Contains(label, kerala_territories[k])
        \/ Contains(label, C16_Alias(kerala_territories[k]))}

\* C16: in the Route Sales pass a canonical name resolves to itself, a label
\* containing a canonical name or one of the aliases TVM, ERNAKULAM, KASARGODE,
\* EDAPPAL resolves to that territory, and of several matches the one first in
\* the list wins.
C16_Canonicalization ==
    (pc = "route" /\ row_i > route_sales_start /\ df_rows[row_i].first \notin RouteSkip) =>
        LET label == df_rows[row_i].first
            hits == C16_Matching(label)
        IN  /\ label \in KeralaSet => resolved_name = label
            /\ Contains(label, "TVM") => resolved_name = "TRIVANDRUM"
            /\ hits # {} =>
                  resolved_name = kerala_territories[CHOOSE k \in hits : \A j \in hits : k <= j]
            /\ hits = {} => resolved_name = NoneStr

\* "ERNAKULAM CITY" resolved through its alias
C16_Witness ==
    /\ pc = "route"
    /\ row_i > route_sales_start
    /\ df_rows[row_i].first = "ERNAKULAM CITY"
    /\ resolved_name = "ERNAMKULAM"

\* the rows of the Route Sales block that the first pass reads and does not skip
RouteRows ==
    {i \in 1..Len(df_rows) :
        /\ route_sales_start # -1
        /\ i > route_sales_start
        /\ df_rows[i].first \notin RouteSkip}

\* C17 as claimed: a row whose label matches no canonical name or alias still
\* yields records, with the raw label as their area.
C17_Original ==
    pc = "returned" =>
        \A i \in RouteRows :
            (C16_Matching(df_rows[i].first) = {} /\ df_rows[i].cells = SoldCells) =>
                \E j \in 1..Len(all_data) : all_data[j].Area = df_rows[i].first

\* C17 (amended): the yearly-territory parser emits records for canonical
\* territories only: a row whose label matches no canonical name or alias yields
\* no record, so no record carries a raw label as its area.
C17_UnmatchedDropped ==
    /\ \A j \in 1..Len(all_data) : all_data[j].Area \in KeralaSet
    /\ pc = "returned" =>
          \A i \in 1..Len(df_rows) :
              (C16_Matching(df_rows[i].first) = {}
               /\ ~Contains(df_rows[i].first, "NEYYATTINKARA")) =>
                  \A j \in 1..Len(all_data) : all_data[j].Area # df_rows[i].first

\* 'CASH SALES' and 'KOLLAM' under the heading: only KOLLAM's two months come out
C17_Witness ==
    /\ pc = "returned"
    /\ Len(df_rows) = 3
    /\ route_sales_start = 1
    /\ {df_rows[2].first, df_rows[3].first} = {"CASH SALES", "KOLLAM"}
    /\ df_rows[2].cells = SoldCells
    /\ df_rows[3].cells = SoldCells
    /\ Len(all_data) = 2
    /\ \A j \in 1..2 : all_data[j].Area = "KOLLAM"

\* C18 as claimed: the records one sheet yields hold at most one record for every
\* (area, calendar month) pair.
C18_OnePerAreaMonth ==
    \A i, j \in 1..Len(all_data) :
        (all_data[i].Area = all_data[j].Area /\ all_data[i].Date = all_data[j].Date) => i = j

\* the missing territories the second pass can break at on the row it is about
\* to read
SecondPassCandidates ==
    IF pc = "second" /\ row_i < Len(df_rows) /\ df_rows[row_i + 1].first \notin SecondSkip
    THEN {m \in missing_territories : MissingMatch(m, df_rows[row_i + 1].first)}
    ELSE {}

\* C23 as claimed: parsing is deterministic; a row of the second pass whose
\* first cell holds the names of two territories not yet found goes to the same
\* territory in every run, that is, the row admits one outcome only.
C23_Deterministic == Cardinality(SecondPassCandidates) <= 1

\* the row's first cell names territory t: exactly, as a substring, through an
\* alias of the first pass, or as NEYYATTINKARA for NEYYATINKARA
C24_Names(label, t) ==
    \/ Contains(label, t)
    \/ Contains(label, C16_Alias(t))
    \/ (t = "NEYYATINKARA" /\ Contains(label, "NEYYATTINKARA"))

\* C24 as claimed: in a sheet with a ROUTE SALES row, every canonical territory
\* without a first-pass record that some row anywhere in the sheet names, with
\* a non-null non-zero month value, has records after the second pass; the
\* second pass resolves rows to territories without a first-pass record only.
C24_SecondPassRecovers ==
    /\ (pc = "second" /\ row_i > 0 /\ missing_territories # {} /\ resolved_name # NoneStr) =>
          resolved_name \in missing_territories
    /\ (pc = "returned" /\ route_sales_start # -1) =>
          \A t \in missing_territories :
              (\E i \in 1..Len(df_rows) :
                  /\ df_rows[i].first \notin SecondSkip
                  /\ df_rows[i].cells = SoldCells
                  /\ C24_Names(df_rows[i].first, t)) =>
                  \E j \in 1..Len(all_data) : all_data[j].Area = t

\* C27: a yearly sheet without a 'ROUTE SALES' row yields no record: the parser
\* returns before the whole-sheet pass, which never reads a row of it
C27_NoRouteSalesNoRecords ==
    (pc # "find" /\ route_sales_start = -1) =>
        /\ pc = "returned"
        /\ all_data = <<>>
        /\ missing_territories = {}
        /\ row_i = 0

\* a sheet whose only territory rows are 'KOLLAM' and 'NEYYATTINKARA' with
\* values, and no heading
C27_Witness ==
    /\ pc = "returned"
    /\ route_sales_start = -1
    /\ Len(df_rows) = 2
    /\ df_rows[1].first = "KOLLAM" /\ df_rows[1].cells = SoldCells
    /\ df_rows[2].first = "NEYYATTINKARA" /\ df_rows[2].cells = SoldCells
    /\ all_data = <<>>

-----------------------------------------------------------------------------
(* SpecHeader: the header row of a generic sheet (lines 1087-1150)             *)
(* df_rows holds the rows of the sheet as read with header=None, file row r at *)
(* position r + 1. A row is [exact, loose]: the number of its cells that are   *)
(* exactly an expected month name (the month columns found when the row is the *)
(* header), the number of its cells that contain a month name in lower case    *)
(* (what the brute-force scan counts), and whether pd.read_excel returns when  *)
(* the row is the header (it raises otherwise).                                *)

target_rows_Ascending == <<5, 6, 7, 8, 9, 10>>

target_rows == <<6, 8, 5, 7, 9, 10>>

\* lines 1111 and 1143: len(month_cols_found) >= 8
MonthThreshold == 8

HeaderAccepts_Seven(row) == row.exact >= 7

HeaderAccepts(row) == row.exact >= MonthThreshold

\* line 1121: range(min(20, len(df)))
ScanLimit == 20

ScanEnd(rows) == IF Len(rows) < ScanLimit THEN Len(rows) ELSE ScanLimit

NoMonths == [exact |-> 0, loose |-> 0, read |-> TRUE]
HeaderRowKinds ==
    {NoMonths, [exact |-> 7, loose |-> 7, read |-> TRUE],
     [exact |-> 8, loose |-> 8, read |-> TRUE], [exact |-> 0, loose |-> 9, read |-> TRUE],
     [exact |-> 8, loose |-> 8, read |-> FALSE]}

\* the most rows of a short sheet, and the rows of the long sheet of the model
MaxSheetRows == 12
LongSheetRows == 22

\* sheets in which at most two rows hold month names
HeaderSheets ==
    {[i \in 1..n |-> IF i = a THEN ka ELSE IF i = b THEN kb ELSE NoMonths] :
        n \in (1..MaxSheetRows) \cup {LongSheetRows},
        a \in 1..LongSheetRows, b \in 1..LongSheetRows,
        ka \in HeaderRowKinds, kb \in HeaderRowKinds}

InitHeader ==
    /\ pc = "candidates"
    /\ df_rows \in HeaderSheets
    /\ row_i = 1
    /\ tried = <<>>
    /\ df_processed = -1
    /\ all_long = <<>>
    /\ cur_area = NoneStr
    /\ route_sales_start = -1
    /\ missing_territories = {}
    /\ resolved_name = NoneStr
    /\ sheets = <<>>
    /\ DateIdle
    /\ ForecastIdle
    /\ PipeIdle

\* lines 1093-1116: one turn of the candidate loop; when pd.read_excel raises,
\* the except branch goes on with the next candidate
TryCandidate ==
    /\ pc = "candidates"
    /\ row_i <= Len(target_rows)
    /\ LET header_row == target_rows[row_i]
       IN  IF header_row >= Len(df_rows)
           THEN /\ row_i' = row_i + 1
                /\ UNCHANGED <<pc, tried, df_processed>>
           ELSE /\ tried' = Append(tried, header_row)
                /\ IF df_rows[header_row + 1].read /\ HeaderAccepts(df_rows[header_row + 1])
                   THEN /\ df_processed' = header_row
                        /\ pc' = "found"
                        /\ row_i' = row_i
                   ELSE /\ row_i' = row_i + 1
                        /\ UNCHANGED <<pc, df_processed>>
    /\ UNCHANGED <<df_rows, all_long, cur_area, route_sales_start, missing_territories,
                   resolved_name, sheets, dateVars, forecastVars, pipeVars>>

\* line 1119: no candidate was accepted
StartScan ==
    /\ pc = "candidates"
    /\ row_i > Len(target_rows)
    /\ pc' = "scan"
    /\ row_i' = 0
    /\ UNCHANGED <<df_rows, tried, df_processed, all_long, cur_area, route_sales_start,
                   missing_territories, resolved_name, sheets, dateVars, forecastVars,
                   pipeVars>>

\* lines 1121-1147: one turn of the brute-force scan over the first rows
ScanRow ==
    /\ pc = "scan"
    /\ row_i < ScanEnd(df_rows)
    /\ IF /\ df_rows[row_i + 1].loose >= MonthThreshold
          /\ df_rows[row_i + 1].read
          /\ HeaderAccepts(df_rows[row_i + 1])
       THEN /\ df_processed' = row_i
            /\ pc' = "found"
            /\ row_i' = row_i
       ELSE /\ row_i' = row_i + 1
            /\ UNCHANGED <<pc, df_processed>>
    /\ UNCHANGED <<df_rows, tried, all_long, cur_area, route_sales_start,
                   missing_territories, resolved_name, sheets, dateVars, forecastVars,
                   pipeVars>>

\* lines 1149-1150: no header row, the sheet is passed over
SkipSheet ==
    /\ pc = "scan"
    /\ row_i = ScanEnd(df_rows)
    /\ pc' = "skipped"
    /\ UNCHANGED <<df_rows, row_i, tried, df_processed, all_long, cur_area,
                   route_sales_start, missing_territories, resolved_name, sheets,
                   dateVars, forecastVars, pipeVars>>

\* lines 1152-1191: the table under the accepted header goes through
\* long_from_wide and its frame is appended. With the header in the last row
\* the table has no rows: pd.DataFrame([]) has no 'Sales' column and
\* dropna(subset=["Sales"]) (line 676) raises KeyError, which nothing catches
TransformSheet ==
    /\ pc = "found"
    /\ IF df_processed = Len(df_rows) - 1
       THEN pc' = "aborted" /\ all_long' = all_long
       ELSE pc' = "appended" /\ all_long' = Append(all_long, "long")
    /\ UNCHANGED <<df_rows, row_i, tried, df_processed, cur_area, route_sales_start,
                   missing_territories, resolved_name, sheets, dateVars, forecastVars,
                   pipeVars>>

NextHeader ==
    \/ TryCandidate
    \/ StartScan
    \/ ScanRow
    \/ SkipSheet
    \/ TransformSheet

SpecHeader == InitHeader /\ [][NextHeader]_vars

\* the candidate header rows in the order the claim lists them
C11_Order == <<6, 8, 5, 7, 9, 10>>

\* a candidate re-read that found at least 8 month columns
C11_Good(h) == df_rows[h + 1].read /\ df_rows[h + 1].exact >= 8

\* C11: the candidates are re-read in the listed order (those beyond the sheet
\* are passed over); a candidate with at least 8 exact month columns is accepted
\* at once and none is re-read after it; one with 7 or fewer is rejected and the
\* next is tried, and the brute-force scan starts only when all were rejected.
C11_CandidateOrder ==
    LET InSheet(h) == h < Len(df_rows)
        avail == SelectSeq(C11_Order, InSheet)
    IN  (pc \in {"candidates", "scan", "found", "skipped"}) =>
        /\ Len(tried) <= Len(avail)
        /\ \A i \in 1..Len(tried) :
              /\ tried[i] = avail[i]
              /\ C11_Good(tried[i]) =>
                    (i = Len(tried) /\ pc = "found" /\ df_processed = tried[i])
              /\ (~C11_Good(tried[i]) /\ i = Len(tried) /\ pc = "found") =>
                    (Len(tried) = Len(avail) /\ df_processed # -1)
        /\ (pc \in {"scan", "skipped"}) =>
              (Len(tried) = Len(avail) /\ \A i \in 1..Len(tried) : ~C11_Good(tried[i]))

\* row 6 has 7 month columns and row 8 has 8: row 6 is rejected, row 8 accepted,
\* and rows 5, 7, 9, 10 are never re-read
C11_Witness ==
    /\ pc = "found"
    /\ Len(df_rows) = 12
    /\ df_rows[7].exact = 7
    /\ df_rows[9].exact = 8
    /\ tried = <<6, 8>>
    /\ df_processed = 8

\* no candidate row and none of the first 20 rows yields 8 exact month columns
C12_NoLayout ==
    \A r \in 0..(Len(df_rows) - 1) :
        (r < 20 \/ r \in {6, 8, 5, 7, 9, 10}) =>
            (df_rows[r + 1].exact < 8 \/ ~df_rows[r + 1].read)

\* C12: a generic sheet in which no candidate header row and none of the first
\* 20 rows yields 8 month columns is passed over: it adds nothing to all_long and
\* the run is not aborted.
C12_LayoutNotFound ==
    C12_NoLayout =>
        /\ pc \in {"candidates", "scan", "skipped"}
        /\ all_long = <<>>
        /\ df_processed = -1

\* a long sheet whose only month row, with all the months, is row 21, beyond
\* the scan
C12_Witness ==
    /\ pc = "skipped"
    /\ Len(df_rows) = LongSheetRows
    /\ df_rows[22].exact = 8
    /\ row_i = 20

-----------------------------------------------------------------------------
(* fit_forecast *)

\* ts.dropna()
DropNa(s) == LET Keep(e) == NotNa(e.v) IN Filter(Keep, s)

\* Series.sum() of a series without NaN
RECURSIVE SeriesSum(_)
SeriesSum(s) == IF Len(s) = 0 THEN 0 ELSE Head(s).v.n + SeriesSum(Tail(s))

\* Series.nunique() of a series without NaN
NUnique(s) == Cardinality({s[i].v : i \in 1..Len(s)})

\* ts.iloc[-k]: the k-th value from the end, an IndexError when there is none
ILocFromEnd(s, k) == IF k <= Len(s) THEN s[Len(s) - k + 1].v ELSE Raise

\* ts.get(key, default) on a series with a unique index
SeriesGet(s, key, default) ==
    IF \E i \in 1..Len(s) : s[i].Date = key
    THEN s[CHOOSE i \in 1..Len(s) : s[i].Date = key].v
    ELSE default

\* pd.Series(values, index=index) of a list of as many values as index entries
SeriesOf(vals, index) == [i \in 1..Len(index) |-> [Date |-> index[i], v |-> vals[i]]]

\* pd.Series(series, index=index): the series re-indexed, NaN where it has no entry
Reindex(series, index) ==
    [i \in 1..Len(index) |-> [Date |-> index[i], v |-> SeriesGet(series, index[i], NaN)]]

\* line 694: the degenerate-series test
IsDegenerate_NoSumTest(s) == NUnique(DropNa(s)) <= 1

IsDegenerate(s) == SeriesSum(DropNa(s)) = 0 \/ NUnique(DropNa(s)) <= 1

\* the index of the forecast: date_range(last + MonthBegin(), periods=horizon, freq="MS")
ForecastIndex_FromLast(last, h) == DateRangePeriods(last, h)

ForecastIndex(last, h) == DateRangePeriods(MonthBeginAfter(last), h)

\* lines 696-699: the flat repeat; clock is pd.Timestamp.now(), read only for an
\* empty series
DegenerateForecast_FirstValue(s, h, clock) ==
    LET nn == DropNa(s)
        last == IF Len(nn) > 0 THEN nn[1].v ELSE Num(0)
        start_date == IF Len(s) > 0 THEN s[Len(s)].Date ELSE clock
    IN  [fc |-> SeriesOf([i \in 1..h |-> last], ForecastIndex(start_date, h)),
         model |-> NoneStr, seasonal |-> NoneStr, raised |-> FALSE,
         branch |-> "degenerate"]

DegenerateForecast(s, h, clock) ==
    LET nn == DropNa(s)
        last == IF Len(nn) > 0 THEN ILocFromEnd(nn, 1) ELSE Num(0)
        start_date == IF Len(s) > 0 THEN s[Len(s)].Date ELSE clock
    IN  [fc |-> SeriesOf([i \in 1..h |-> last], ForecastIndex(start_date, h)),
         model |-> NoneStr, seasonal |-> NoneStr, raised |-> FALSE,
         branch |-> "degenerate"]

\* lines 702-703 with `ts < 0` for `ts <= 0`
SeasonalMode_ZeroIsPositive(s) ==
    IF \E i \in 1..Len(s) : s[i].v.t = "num" /\ s[i].v.n < 0 THEN "add" ELSE "mul"

\* lines 702-703
SeasonalMode(s) ==
    IF \E i \in 1..Len(s) : s[i].v.t = "num" /\ s[i].v.n <= 0 THEN "add" ELSE "mul"

\* statsmodels' ExponentialSmoothing(...).fit(...).forecast(horizon) is not code of
\* this repository: when it does not raise it returns horizon values, indexed by
\* the months that follow the series; which values is left open (a level and a
\* slope drawn from small sets)
LibLevels == {3, 7}
LibSlopes == {1}

LibForecasts(s, h) ==
    {SeriesOf([i \in 1..h |-> Num(l + k * i)], ForecastIndex(s[Len(s)].Date, h)) :
        l \in LibLevels, k \in LibSlopes}

\* lines 712-714: the fitted branch, given the library's forecast
FittedForecast(s, h, lib) ==
    [fc |-> Reindex(lib, ForecastIndex(s[Len(s)].Date, h)),
     model |-> "ExponentialSmoothing", seasonal |-> SeasonalMode(s),
     raised |-> FALSE, branch |-> "fitted"]

\* lines 720-723: the seasonal-naive value of forecast month dt
NaiveValue_NoLengthTest(s, dt) ==
    LET val == SeriesGet(s, MinusOneYear(dt), NaN)
    IN  IF val.t = "nan" THEN ILocFromEnd(s, 12) ELSE val

NaiveValue_AlwaysLast(s, dt) ==
    LET val == SeriesGet(s, MinusOneYear(dt), NaN)
    IN  IF val.t = "nan" THEN ILocFromEnd(s, 1) ELSE val

NaiveValue(s, dt) ==
    LET val == SeriesGet(s, MinusOneYear(dt), NaN)
    IN  IF val.t = "nan"
        THEN IF Len(s) >= 12 THEN ILocFromEnd(s, 12) ELSE ILocFromEnd(s, 1)
        ELSE val

\* lines 715-725: the fallback taken when the fit raises
FallbackForecast_ShortIndex(s, h) ==
    LET fc_index == ForecastIndex(s[Len(s)].Date, IF h > 12 THEN 12 ELSE h)
    IN  [fc |-> SeriesOf([i \in 1..Len(fc_index) |-> NaiveValue(s, fc_index[i])], fc_index),
         model |-> NoneStr, seasonal |-> SeasonalMode(s), raised |-> FALSE,
         branch |-> "fallback"]

FallbackForecast(s, h) ==
    LET fc_index == ForecastIndex(s[Len(s)].Date, h)
        forecast_vals == [i \in 1..h |-> NaiveValue(s, fc_index[i])]
        error == \E i \in 1..h : forecast_vals[i] = Raise
    IN  [fc |-> IF error THEN <<>> ELSE SeriesOf(forecast_vals, fc_index),
         model |-> NoneStr, seasonal |-> SeasonalMode(s), raised |-> error,
         branch |-> "fallback"]

\* the months pd.Timestamp.now() falls in, in the model
ClockMonths == {Timestamp(2025, 12), Timestamp(2026, 1)}

\* fit_forecast(ts, horizon): every result the call can return
fit_forecast(s, h) ==
    IF IsDegenerate(s)
    THEN {DegenerateForecast(s, h, clock) :
             clock \in IF Len(s) = 0 THEN ClockMonths ELSE {NaT}}
    ELSE {FittedForecast(s, h, lib) : lib \in LibForecasts(s, h)}
         \cup {FallbackForecast(s, h)}

-----------------------------------------------------------------------------
(* SpecForecast: fit_forecast applied to one series and one horizon *)

\* the largest horizon the sidebar lets through
MaxHorizon == 24

\* every series of at most MaxShort values is an input; longer ones, up to
\* MaxLen values, follow one of the profiles
MaxShort == 3
MaxLen == 14

SeriesValues == {Num(-1), Num(0), Num(1), Num(2), NaN}

StartMonths == {Timestamp(2023, 4), Timestamp(2023, 11)}

ShortValueSeqs == UNION {[1..n -> SeriesValues] : n \in 0..MaxShort}

ProfileValueSeqs ==
    UNION {{[i \in 1..n |-> Num(i)],
            [i \in 1..n |-> Num(3 - i)],
            [i \in 1..n |-> Num(100)],
            [i \in 1..n |-> Num(0)],
            [i \in 1..n |-> Num(IF i % 2 = 1 THEN 5 ELSE -5)]} :
           n \in (MaxShort + 1)..MaxLen}

\* the monthly series with the given values, one per month from start on
MonthlySeries(start, vals) == SeriesOf(vals, DateRangePeriods(start, Len(vals)))

SeriesInputs ==
    {MonthlySeries(start, vals) :
        start \in StartMonths, vals \in ShortValueSeqs \cup ProfileValueSeqs}

InitForecast ==
    /\ pc = "call"
    /\ ts \in SeriesInputs
    /\ horizon \in 1..MaxHorizon
    /\ fc = <<>>
    /\ model = NoneStr
    /\ seasonal = NoneStr
    /\ raised = FALSE
    /\ DateIdle
    /\ PipeIdle
    /\ SheetIdle

Return(r) ==
    /\ fc' = r.fc
    /\ model' = r.model
    /\ seasonal' = r.seasonal
    /\ raised' = r.raised
    /\ pc' = r.branch
    /\ UNCHANGED <<ts, horizon, dateVars, pipeVars, sheetVars>>

\* the call returns through the degenerate guard
FitForecastDegenerate ==
    /\ pc = "call"
    /\ \E r \in fit_forecast(ts, horizon) : r.branch = "degenerate" /\ Return(r)

\* the library fits and forecasts
FitForecastFitted ==
    /\ pc = "call"
    /\ \E r \in fit_forecast(ts, horizon) : r.branch = "fitted" /\ Return(r)

\* the library raises and the except branch forecasts
FitForecastFallback ==
    /\ pc = "call"
    /\ \E r \in fit_forecast(ts, horizon) : r.branch = "fallback" /\ Return(r)

NextForecast ==
    \/ FitForecastDegenerate
    \/ FitForecastFitted
    \/ FitForecastFallback

SpecForecast == InitForecast /\ [][NextForecast]_vars

Returned == pc \in {"degenerate", "fitted", "fallback"}

\* the series has no NaN entry (what the forecast loop hands over)
GapFree(s) == \A i \in 1..Len(s) : s[i].v.t = "num"

\* C2: fit_forecast returns exactly horizon values, whichever branch (degenerate
\* guard, fitted model, seasonal-naive fallback) produced them, for every series
\* profile and every positive horizon.
C2_ForecastLength == Returned => Len(fc) = horizon

\* a three-value series forecast 24 months ahead by the fallback
C2_Witness ==
    /\ pc = "fallback"
    /\ Len(ts) = 3
    /\ horizon = MaxHorizon
    /\ Len(fc) = MaxHorizon

\* the arguments of the ExponentialSmoothing call (lines 705-711)
ModelRequest(s) ==
    [trend |-> "add", seasonal |-> SeasonalMode(s), seasonal_periods |-> 12]

\* C25: for a series that is not degenerate the model asked for has an additive
\* trend and period 12, its seasonal component is additive when some observed
\* value is <= 0 and multiplicative when every observed value is > 0; a
\* multiplicative seasonal model is never asked for a series with a zero or a
\* negative value. The degenerate guard asks for no model.
C25_SeasonalMode ==
    LET observed == {ts[i].v.n : i \in {j \in 1..Len(ts) : ts[j].v.t = "num"}}
    IN  /\ pc \in {"fitted", "fallback"} =>
              /\ ~IsDegenerate(ts)
              /\ ModelRequest(ts).trend = "add"
              /\ ModelRequest(ts).seasonal_periods = 12
              /\ seasonal = ModelRequest(ts).seasonal
              /\ (\E x \in observed : x <= 0) => seasonal = "add"
              /\ (\A x \in observed : x > 0) => seasonal = "mul"
        /\ seasonal = "mul" => \A x \in observed : x > 0
        /\ pc = "degenerate" => seasonal = NoneStr

\* a series with a zero and no negative value, fitted with additive seasonality
C25_Witness ==
    /\ pc = "fitted"
    /\ seasonal = "add"
    /\ \E i \in 1..Len(ts) : ts[i].v = Num(0)
    /\ \A i \in 1..Len(ts) : ts[i].v.t = "num" /\ ts[i].v.n >= 0

\* C3: fit_forecast lets no error reach its caller; for a gap-free series the
\* values returned by the degenerate guard and by the seasonal-naive fallback
\* (the branch taken when the fit raises) are all defined numbers.
C3_NeverRaises ==
    Returned =>
        /\ ~raised
        /\ (GapFree(ts) /\ pc \in {"degenerate", "fallback"}) =>
               /\ Len(fc) = horizon
               /\ \A i \in 1..Len(fc) : fc[i].v.t = "num"

\* the fit raised on a gap-free series shorter than a year; the fallback returned
C3_Witness ==
    /\ pc = "fallback"
    /\ GapFree(ts)
    /\ Len(ts) = 3
    /\ horizon = 1
    /\ ~raised
    /\ fc[1].v = ts[3].v

\* the values of a series, in order
ValuesOf(s) == [i \in 1..Len(s) |-> s[i].v]

\* C4: when the non-null values of the series sum to zero, or the series has at
\* most one distinct non-null value, no model is fit and each of the horizon
\* forecast values is the last non-null observed value (0.0 when there is none);
\* twelve zeros with horizon 3 give [0, 0, 0], twelve 100s with horizon 2 give
\* [100, 100].
C4_DegenerateGuard ==
    LET idx == {i \in 1..Len(ts) : ts[i].v.t = "num"}
        distinct == {ts[i].v.n : i \in idx}
        last == IF idx = {} THEN Num(0)
                ELSE ts[CHOOSE i \in idx : \A j \in idx : j <= i].v
    IN  /\ (Returned /\ (SeriesSum(DropNa(ts)) = 0 \/ Cardinality(distinct) <= 1)) =>
               /\ pc = "degenerate"
               /\ model = NoneStr
               /\ ValuesOf(fc) = [i \in 1..horizon |-> last]
        /\ (Returned /\ ValuesOf(ts) = [i \in 1..12 |-> Num(0)] /\ horizon = 3) =>
               ValuesOf(fc) = <<Num(0), Num(0), Num(0)>>
        /\ (Returned /\ ValuesOf(ts) = [i \in 1..12 |-> Num(100)] /\ horizon = 2) =>
               ValuesOf(fc) = <<Num(100), Num(100)>>

\* a series of 5, -5, 5, -5 (two distinct values, sum zero) returned flat
C4_Witness ==
    /\ pc = "degenerate"
    /\ ValuesOf(ts) = <<Num(5), Num(-5), Num(5), Num(-5)>>
    /\ horizon = 2
    /\ ValuesOf(fc) = <<Num(-5), Num(-5)>>
    /\ model = NoneStr

\* C5: in the seasonal-naive fallback on a gap-free series, the forecast of
\* future month d is the series value at d minus 12 months when the series has
\* that month; otherwise the value 12 observations back from the end when the
\* series has at least 12 observations, the last value when it has fewer; and no
\* model handle is returned.
C5_SeasonalNaive ==
    (pc = "fallback" /\ GapFree(ts)) =>
        /\ model = NoneStr
        /\ Len(fc) = horizon
        /\ \A i \in 1..Len(fc) :
              LET n == Len(ts)
                  prior == MonthOrdinal(ts[n].Date) + i - 12
                  hit == {j \in 1..n : MonthOrdinal(ts[j].Date) = prior}
              IN  fc[i].v = IF hit # {} THEN ts[CHOOSE j \in hit : TRUE].v
                            ELSE IF n >= 12 THEN ts[n - 11].v
                            ELSE ts[n].v

\* 14 observations 1..14 forecast 24 months ahead: month 1 repeats the value of
\* a year before (3), month 13 has no year-before value and takes the 12th from
\* the end (3)
C5_Witness ==
    /\ pc = "fallback"
    /\ ValuesOf(ts) = [i \in 1..14 |-> Num(i)]
    /\ horizon = 24
    /\ fc[1].v = Num(3)
    /\ fc[12].v = Num(14)
    /\ fc[13].v = Num(3)

\* C6: for a non-empty series whose last month is L, the forecast dates are, in
\* every branch, the horizon consecutive months L+1 .. L+horizon.
C6_ForecastDates ==
    (Returned /\ Len(ts) > 0) =>
        /\ Len(fc) = horizon
        /\ \A i \in 1..Len(fc) :
              /\ fc[i].Date.month \in 1..12
              /\ MonthOrdinal(fc[i].Date) = MonthOrdinal(ts[Len(ts)].Date) + i

\* a series ending in December 2023: the forecast starts in January 2024
C6_Witness ==
    /\ Returned
    /\ Len(ts) > 0
    /\ ts[Len(ts)].Date = Timestamp(2023, 12)
    /\ horizon >= 13
    /\ fc[1].Date = Timestamp(2024, 1)
    /\ fc[13].Date = Timestamp(2025, 1)

-----------------------------------------------------------------------------
(* The run after the sheets are parsed: cleaning, grouping, forecasting *)

\* the areas and group keys of the model, in the order of Python's string
\* comparison (sorted(), sort_values and groupby order strings this way)
StringOrder ==
    <<"All", "FY_Sales2023", "KANNUR", "KERALA", "KERALA - KANNUR", "KERALA - KOLLAM",
      "KERALA - Unspecified", "KERALA ZONE", "KOLLAM", "NA - KANNUR", "NA - KOLLAM",
      "NA - Unspecified", "NaN", "Unspecified">>

StringRank(x) == CHOOSE i \in 1..Len(StringOrder) : StringOrder[i] = x

\* convert_to_lakhs; the sales of the model are whole lakhs, which the integer
\* quotient divides exactly
Lakh == 100000

convert_to_lakhs_Unscaled(v) == v

convert_to_lakhs(v) == IF v = 0 THEN v ELSE v \div Lakh

\* line 1199: long_all["Area"].fillna("Unspecified"); a missing area is "NaN"
FillArea(r) == IF r.Area = "NaN" THEN [r EXCEPT !.Area = "Unspecified"] ELSE r

\* sort_values(["Area", "Date"]): r goes before q
AreaDateBefore(r, q) ==
    \/ StringRank(r.Area) < StringRank(q.Area)
    \/ (r.Area = q.Area /\ DateLess(r.Date, q.Date))

\* r put into the sorted rows, behind the rows it does not go before
RECURSIVE InsertSorted(_, _)
InsertSorted(rows, r) ==
    IF Len(rows) = 0 THEN <<r>>
    ELSE IF AreaDateBefore(r, Head(rows)) THEN <<r>> \o rows
    ELSE <<Head(rows)>> \o InsertSorted(Tail(rows), r)

RECURSIVE SortAreaDate(_)
SortAreaDate(rows) ==
    IF Len(rows) = 0 THEN <<>>
    ELSE InsertSorted(SortAreaDate(SubSeq(rows, 1, Len(rows) - 1)), rows[Len(rows)])

\* lines 1197-1202 without the dropna(subset=["Date"]) of line 1201
CleanLongAll_KeepUndated(rows) ==
    SortAreaDate([i \in 1..Len(rows) |-> FillArea(rows[i])])

\* lines 1197-1202
CleanLongAll(rows) ==
    LET filled == [i \in 1..Len(rows) |-> FillArea(rows[i])]
        Dated(r) == NotNaT(r.Date)
    IN  SortAreaDate(Filter(Dated, filled))

\* lines 1239-1244: the group key of every row
StateAreaKey(r) ==
    (IF r.State = NoneStr THEN "NA" ELSE r.State) \o " - " \o
    (IF r.Area = "NaN" THEN "NA" ELSE r.Area)

GroupKeyOf_Unguarded(rows, level, r) ==
    IF level = "All Areas" THEN "All"
    ELSE IF level = "State+Area" THEN StateAreaKey(r)
    ELSE IF r.Area = "NaN" THEN "Unspecified" ELSE r.Area

GroupKeyOf(rows, level, r) ==
    IF level = "All Areas" THEN "All"
    ELSE IF level = "State+Area" /\ \E i \in 1..Len(rows) : rows[i].State # NoneStr
    THEN StateAreaKey(r)
    ELSE IF r.Area = "NaN" THEN "Unspecified" ELSE r.Area

WithGroupKey(rows, level) ==
    [i \in 1..Len(rows) |->
        [Area |-> rows[i].Area, State |-> rows[i].State, Date |-> rows[i].Date,
         Sales |-> rows[i].Sales, GroupKey |-> GroupKeyOf(rows, level, rows[i])]]

\* line 1248 without the condition of line 1247
FilterSelected_Always(rows, level, sel) ==
    LET Selected(r) == r.Area \in sel
    IN  Filter(Selected, rows)

\* lines 1247-1248
FilterSelected(rows, level, sel) ==
    LET Selected(r) == r.Area \in sel
    IN  IF level # "All Areas" THEN Filter(Selected, rows) ELSE rows

\* the sum of the Sales of the rows (NaN is skipped)
RECURSIVE SumSales(_)
SumSales(rows) ==
    IF Len(rows) = 0 THEN 0
    ELSE (IF Head(rows).Sales.t = "num" THEN Head(rows).Sales.n ELSE 0)
         + SumSales(Tail(rows))

GroupTotal_FirstOnly(rows, g, d) ==
    LET Member(r) == r.GroupKey = g /\ r.Date = d
    IN  Head(Filter(Member, rows)).Sales.n

GroupTotal(rows, g, d) ==
    LET Member(r) == r.GroupKey = g /\ r.Date = d
    IN  SumSales(Filter(Member, rows))

\* (GroupKey, Date) pairs in groupby order: by key, then by date
PairBefore(a, b) ==
    \/ StringRank(a[1]) < StringRank(b[1])
    \/ (a[1] = b[1] /\ DateLess(a[2], b[2]))

RECURSIVE SortedPairs(_)
SortedPairs(S) ==
    IF S = {} THEN <<>>
    ELSE LET m == CHOOSE a \in S : \A b \in S \ {a} : PairBefore(a, b)
         IN  <<m>> \o SortedPairs(S \ {m})

\* lines 1251-1254: grp
BuildGrp(rows) ==
    LET pairs == SortedPairs({<<rows[i].GroupKey, rows[i].Date>> : i \in 1..Len(rows)})
    IN  [k \in 1..Len(pairs) |->
            LET total == GroupTotal(rows, pairs[k][1], pairs[k][2])
            IN  [GroupKey |-> pairs[k][1], Date |-> pairs[k][2], Sales |-> total,
                 Sales_Lakhs |-> convert_to_lakhs(total)]]

\* the keys of grp.groupby("GroupKey"), in iteration order
RECURSIVE GroupKeys(_)
GroupKeys(g) ==
    IF Len(g) = 0 THEN <<>>
    ELSE LET rest == GroupKeys(Tail(g))
         IN  IF Len(rest) > 0 /\ Head(rest) = Head(g).GroupKey THEN rest
             ELSE <<Head(g).GroupKey>> \o rest

\* gdf.set_index("Date")["Sales_Lakhs"]
GroupSeries(g, key) ==
    LET Member(row) == row.GroupKey = key
        gdf == Filter(Member, g)
    IN  [i \in 1..Len(gdf) |-> [Date |-> gdf[i].Date, v |-> Num(gdf[i].Sales_Lakhs)]]

\* Series.asfreq("MS") of a series sorted by date
AsFreqMS(s) == Reindex(s, DateRangeTo(s[1].Date, s[Len(s)].Date))

\* Series.ffill()
RECURSIVE FFill(_)
FFill(s) ==
    IF Len(s) <= 1 THEN s
    ELSE LET front == FFill(SubSeq(s, 1, Len(s) - 1))
             e == s[Len(s)]
         IN  Append(front, IF e.v.t = "nan" THEN [e EXCEPT !.v = front[Len(front)].v] ELSE e)

\* Series.fillna(0.0)
FillNaZero(s) ==
    [i \in 1..Len(s) |-> IF s[i].v.t = "nan" THEN [s[i] EXCEPT !.v = Num(0)] ELSE s[i]]

\* lines 1261-1265: the series handed to fit_forecast
ResampledSeries_ZeroFill(g, key) == FillNaZero(AsFreqMS(GroupSeries(g, key)))

ResampledSeries_NoFill(g, key) == AsFreqMS(GroupSeries(g, key))

ResampledSeries(g, key) ==
    LET raw == AsFreqMS(GroupSeries(g, key))
    IN  IF \E i \in 1..Len(raw) : raw[i].v.t = "nan" THEN FillNaZero(FFill(raw)) ELSE raw

-----------------------------------------------------------------------------
(* Spec: the run from the concatenated dataset to the forecasts *)

\* the most records the concatenated dataset holds in the model
MaxRecords == 3

\* default_h, the horizon when "Only next month target" is not ticked and the
\* horizon input is left alone
default_h == 3

Levels == {"Area", "State+Area", "All Areas"}
PipeAreas == {"KOLLAM", "KANNUR"}
PipeStates == {NoneStr, "KERALA"}
PipeDates == {Timestamp(2023, 11), Timestamp(2023, 12), Timestamp(2024, 2)}
PipeSales == {-100000, 200000}

\* the records a parser can emit; the fields the run reads after parsing. Both
\* sales values occur in November 2023, the larger one alone in the later months
RecordUniverse ==
    {r \in [Area : PipeAreas, State : PipeStates, Date : PipeDates,
            Sales : {Num(v) : v \in PipeSales}] :
        r.Date = Timestamp(2023, 11) \/ r.Sales = Num(200000)}
    \cup {[Area |-> "KOLLAM", State |-> NoneStr, Date |-> NaT, Sales |-> Num(200000)],
          [Area |-> "NaN", State |-> "KERALA", Date |-> Timestamp(2023, 12),
           Sales |-> Num(200000)]}

\* a number per record, to list each multiset of records once
RecordRank(r) ==
    (StringRank(r.Area) * 2 + (IF r.State = NoneStr THEN 0 ELSE 1)) * 1000000
    + (MonthOrdinal(r.Date) + 1) * 10
    + (IF r.Sales.n > 0 THEN 1 ELSE 0)

\* pd.concat(all_long): the frames of the sheets, one after the other
Datasets ==
    UNION {{rows \in [1..n -> RecordUniverse] :
               \A i \in 1..(n - 1) : RecordRank(rows[i]) <= RecordRank(rows[i + 1])} :
           n \in 1..MaxRecords}

Init ==
    /\ pc = "concat"
    /\ long_all \in Datasets
    /\ aggregate_level \in Levels
    /\ horizon \in {1, default_h}
    /\ selected_areas = {}
    /\ grp = <<>>
    /\ todo = <<>>
    /\ all_fc = <<>>
    /\ profit_margin = 15
    /\ targets_df = <<>>
    /\ ts = <<>>
    /\ fc = <<>>
    /\ model = NoneStr
    /\ seasonal = NoneStr
    /\ raised = FALSE
    /\ DateIdle
    /\ SheetIdle

\* lines 1197-1209: clean; the caption's min_dt.date() raises on an empty frame
Clean ==
    /\ pc = "concat"
    /\ long_all' = CleanLongAll(long_all)
    /\ pc' = IF Len(long_all') = 0 THEN "error" ELSE "clean"
    /\ UNCHANGED <<aggregate_level, profit_margin, targets_df, selected_areas, grp, todo,
                   all_fc, dateVars, sheetVars,
                   forecastVars>>

\* lines 1212-1244: the areas offered, the selection made, the group keys
AssignGroupKey ==
    /\ pc = "clean"
    /\ \E sel \in SUBSET {long_all[i].Area : i \in 1..Len(long_all)} :
          selected_areas' = sel
    /\ long_all' = WithGroupKey(long_all, aggregate_level)
    /\ pc' = "keyed"
    /\ UNCHANGED <<aggregate_level, profit_margin, targets_df, grp, todo, all_fc, dateVars,
                   sheetVars, forecastVars>>

\* lines 1246-1254: the selected areas' rows, summed per group and month
BuildGroups ==
    /\ pc = "keyed"
    /\ long_all' = FilterSelected(long_all, aggregate_level, selected_areas)
    /\ grp' = BuildGrp(long_all')
    /\ todo' = GroupKeys(grp')
    /\ pc' = "forecast"
    /\ UNCHANGED <<aggregate_level, profit_margin, targets_df, selected_areas, all_fc,
                   dateVars, sheetVars, forecastVars>>

\* lines 1260-1268: one turn of the forecast loop
ForecastGroup ==
    /\ pc = "forecast"
    /\ todo # <<>>
    /\ LET g == Head(todo)
           series == ResampledSeries(grp, g)
       IN  \E r \in fit_forecast(series, horizon) :
              /\ ts' = series
              /\ fc' = r.fc
              /\ model' = r.model
              /\ seasonal' = r.seasonal
              /\ raised' = r.raised
              /\ all_fc' = Append(all_fc, [Group |-> g, df_fc |-> r.fc])
              /\ pc' = IF r.raised THEN "error" ELSE "forecast"
    /\ todo' = Tail(todo)
    /\ UNCHANGED <<horizon, long_all, aggregate_level, profit_margin, targets_df,
                   selected_areas, grp, dateVars, sheetVars>>

\* line 730
month_names ==
    <<"January", "February", "March", "April", "May", "June",
      "July", "August", "September", "October", "November", "December">>

\* lines 750-751: the column a forecast month is written to
TargetColumn(month_date) == month_names[month_date.month] \o " Target"

\* lines 745-753: round(forecast_value * (1 + profit_margin / 100), 2), counted
\* in hundredths (exact for a whole forecast value and a whole margin)
TargetValue(forecast_value, margin) == forecast_value.n * (100 + margin)

\* lines 744-753: the target entries of a row after the first n turns of the
\* loop; row[column_name] = ... replaces the entry the key already has
RECURSIVE RowTargets(_, _, _)
RowTargets(df_fc, n, margin) ==
    LET column_name == TargetColumn(df_fc[n].Date)
        target_value == TargetValue(df_fc[n].v, margin)
    IN  IF n = 1 THEN [c \in {column_name} |-> target_value]
        ELSE LET row == RowTargets(df_fc, n - 1, margin)
             IN  [c \in DOMAIN row \cup {column_name} |->
                     IF c = column_name THEN target_value ELSE row[c]]

\* lines 735-755: the rows of the target table, one per forecast that has rows
RECURSIVE TargetRows(_, _, _)
TargetRows(all_forecasts, h, margin) ==
    IF Len(all_forecasts) = 0 THEN <<>>
    ELSE LET area == Head(all_forecasts).Group
             df_fc == Head(all_forecasts).df_fc
             n == IF h < Len(df_fc) THEN h ELSE Len(df_fc)
             rest == TargetRows(Tail(all_forecasts), h, margin)
         IN  IF Len(df_fc) > 0
             THEN <<[Area |-> area, Date |-> df_fc[1].Date,
                     targets |-> RowTargets(df_fc, n, margin)]>> \o rest
             ELSE rest

\* lines 727-759: the sheet "Forecast Target For Areas"
make_report(all_forecasts, h, margin) ==
    SortAreaDate(TargetRows(all_forecasts, h, margin))

\* lines 1271-1276: pd.concat of the forecasts raises when there is none
CombineForecasts ==
    /\ pc = "forecast"
    /\ todo = <<>>
    /\ pc' = IF Len(all_fc) = 0 THEN "error" ELSE "done"
    /\ UNCHANGED <<long_all, aggregate_level, profit_margin, targets_df, selected_areas, grp,
                   todo, all_fc,
                   dateVars, sheetVars, forecastVars>>

\* line 1281: the report is built from the forecasts of the loop
MakeReport ==
    /\ pc = "done"
    /\ targets_df' = make_report(all_fc, horizon, profit_margin)
    /\ pc' = "reported"
    /\ UNCHANGED <<long_all, aggregate_level, profit_margin, selected_areas, grp, todo,
                   all_fc, dateVars, sheetVars, forecastVars>>

Next ==
    \/ Clean
    \/ AssignGroupKey
    \/ BuildGroups
    \/ ForecastGroup
    \/ CombineForecasts
    \/ MakeReport

Spec == Init /\ [][Next]_vars

\* the forecast loop has handed a series over: ts is the series of the group
\* last entered in all_fc
Handed == pc \in {"forecast", "done"} /\ Len(all_fc) > 0

HandedGroup == all_fc[Len(all_fc)].Group

\* the months (on the month axis) in which group g has a retained record
ObservedMonths(g) ==
    {MonthOrdinal(long_all[i].Date) : i \in {j \in 1..Len(long_all) : long_all[j].GroupKey = g}}

\* the sales of the retained records of group g dated in month m, added up
RECURSIVE SalesIn(_, _, _)
SalesIn(rows, g, m) ==
    IF Len(rows) = 0 THEN 0
    ELSE (IF Head(rows).GroupKey = g /\ MonthOrdinal(Head(rows).Date) = m
          THEN Head(rows).Sales.n ELSE 0)
         + SalesIn(Tail(rows), g, m)

\* C7: the series handed to fit_forecast has exactly one entry for every month
\* from the group's earliest to its latest observed month, and no entry is null.
C7_GapFreeSeries ==
    Handed =>
        LET obs == ObservedMonths(HandedGroup)
            lo == CHOOSE m \in obs : \A k \in obs : m <= k
            hi == CHOOSE m \in obs : \A k \in obs : k <= m
        IN  /\ Len(ts) = hi - lo + 1
            /\ \A k \in 1..Len(ts) :
                  /\ ts[k].Date.month \in 1..12
                  /\ MonthOrdinal(ts[k].Date) = lo + k - 1
                  /\ ts[k].v.t = "num"

\* a group observed in November 2023 and February 2024 only: four entries
C7_Witness ==
    /\ Handed
    /\ ObservedMonths(HandedGroup) =
           {MonthOrdinal(Timestamp(2023, 11)), MonthOrdinal(Timestamp(2024, 2))}
    /\ Len(ts) = 4
    /\ ts[3].Date = Timestamp(2024, 1)

C9_GroupSums ==
    pc \in {"forecast", "done"} =>
        \A g \in {StringOrder[i] : i \in 1..Len(StringOrder)}, d \in PipeDates :
            LET members == {i \in 1..Len(long_all) :
                               long_all[i].GroupKey = g /\ long_all[i].Date = d}
                rows == {k \in 1..Len(grp) : grp[k].GroupKey = g /\ grp[k].Date = d}
            IN  /\ Cardinality(rows) = IF members = {} THEN 0 ELSE 1
                /\ \A k \in rows :
                      /\ grp[k].Sales = SalesIn(long_all, g, MonthOrdinal(d))
                      /\ grp[k].Sales_Lakhs * Lakh = grp[k].Sales

\* three records of two areas in November 2023, summed into the single row of
\* "All": 200000 + 200000 - 100000
C9_Witness ==
    /\ pc = "forecast"
    /\ aggregate_level = "All Areas"
    /\ Len(long_all) = 3
    /\ \A i \in 1..3 : long_all[i].Date = Timestamp(2023, 11)
    /\ long_all[1].Area # long_all[3].Area
    /\ Len(grp) = 1
    /\ grp[1].Sales = 300000

\* the key "state - area" of a record, a missing state written "NA"
StateDashArea(r) == (IF r.State = NoneStr THEN "NA" ELSE r.State) \o " - " \o r.Area

\* C10 as claimed: under 'State+Area' every record's group key is its state, a
\* separator and its area, a missing state written "NA", for every dataset.
C10_Original ==
    (pc = "keyed" /\ aggregate_level = "State+Area") =>
        \A i \in 1..Len(long_all) : long_all[i].GroupKey = StateDashArea(long_all[i])

\* C10 (amended): under 'State+Area', when at least one record of the cleaned
\* dataset has a state, every record's group key is its state, a separator and
\* its area, a missing state written "NA"; when every record's state is missing,
\* the group key is the area alone.
C10_StateAreaKey ==
    (pc = "keyed" /\ aggregate_level = "State+Area") =>
        \A i \in 1..Len(long_all) :
            long_all[i].GroupKey =
                IF \E j \in 1..Len(long_all) : long_all[j].State # NoneStr
                THEN StateDashArea(long_all[i])
                ELSE long_all[i].Area

\* one record with a state and one without: the latter is keyed "NA - KOLLAM"
C10_Witness ==
    /\ pc = "keyed"
    /\ aggregate_level = "State+Area"
    /\ \E i, j \in 1..Len(long_all) :
          /\ long_all[i].State = "KERALA"
          /\ long_all[i].GroupKey = "KERALA - KANNUR"
          /\ long_all[j].State = NoneStr
          /\ long_all[j].GroupKey = "NA - KOLLAM"

-----------------------------------------------------------------------------
(* SpecSheets: the loop over relevant_sheets, the empty check, the clean *)

\* the most sheets of a workbook in the model
MaxSheets == 2

\* lines 1067, 1074, 1081: the parser the sheet's name selects
SheetKinds == {"monthly", "report", "yearly", "generic"}

\* what is wrong with a sheet: nothing; the sheet is empty; reading it again
\* raises; the header row is the last row; a column header is a number; a month
\* cell holds text; the parser's landmarks (month row, 'ROUTE SALES') are absent
SheetFaults ==
    {"none", "empty", "read_error", "zero_rows", "non_text_header", "unparseable_cell",
     "no_layout"}

\* the month cells of a sound sheet: a value under a readable fiscal year, a
\* value without a year column (long_from_wide leaves its Date NaT), no value
SheetRowKinds == {"dated", "undated", "none"}

SheetUniverse ==
    {s \in [kind : SheetKinds, fault : SheetFaults, rows : SheetRowKinds] :
        /\ s.fault # "none" => s.rows = "dated"
        /\ s.rows = "undated" => s.kind = "generic"}

Workbooks == UNION {[1..n -> SheetUniverse] : n \in 1..MaxSheets}

\* the records the sheet's readable month cells give
SheetRecords(sheet) ==
    IF sheet.rows = "none" THEN <<>>
    ELSE <<[Area |-> IF sheet.kind = "generic" THEN "KANNUR" ELSE "KOLLAM",
            State |-> NoneStr,
            Date |-> IF sheet.rows = "dated" THEN Timestamp(2023, 11) ELSE NaT,
            Sales |-> Num(200000)]>>

\* `if all_data: return [result_df] else: return []` (lines 368-373, 539-544,
\* 624-629)
ResultOf(all_rows) == IF Len(all_rows) = 0 THEN <<>> ELSE <<all_rows>>

\* process_monthly_comparison_sheet: the whole body is one try block, and
\* `except Exception` returns []; float() of a text cell raises inside it
process_monthly_comparison_sheet(sheet) ==
    IF sheet.fault \in {"read_error", "zero_rows", "no_layout", "unparseable_cell"}
    THEN <<>>
    ELSE ResultOf(SheetRecords(sheet))

\* process_territory_data_from_yearly_sheets: the cell's conversion has a try
\* of its own (lines 454-478, 512-536), so a text cell loses that cell alone;
\* without 'ROUTE SALES' line 415 returns []
process_territory_data_from_yearly_sheets(sheet) ==
    IF sheet.fault \in {"read_error", "zero_rows", "no_layout"}
    THEN <<>>
    ELSE ResultOf(SheetRecords(sheet))

\* process_comparison_report_sheet: as the yearly parser (lines 600-621)
process_comparison_report_sheet(sheet) ==
    IF sheet.fault \in {"read_error", "zero_rows", "no_layout"}
    THEN <<>>
    ELSE ResultOf(SheetRecords(sheet))

\* lines 1087-1191 for one sheet. The re-reads are inside try blocks, so a
\* read error leaves df_processed None as a missing month row does (line 1150).
\* detect_keys calls c.lower() on every column header (lines 274, 278): a
\* header that is a number raises AttributeError. A header in the last row
\* leaves no rows, pd.DataFrame([]) has no 'Sales' column and line 676 raises
\* KeyError. Neither is inside a try block. pd.to_numeric(errors="coerce")
\* turns a text cell into NaN, which line 676 drops
GenericOutcome(sheet) ==
    IF sheet.fault \in {"read_error", "no_layout"} THEN [t |-> "continue", long |-> <<>>]
    ELSE IF sheet.fault \in {"zero_rows", "non_text_header"}
    THEN [t |-> "raise", long |-> <<>>]
    ELSE [t |-> "append", long |-> SheetRecords(sheet)]

InitSheets ==
    /\ pc = "sheets"
    /\ sheets \in Workbooks
    /\ all_long = <<>>
    /\ df_rows = <<>>
    /\ row_i = 0
    /\ cur_area = NoneStr
    /\ route_sales_start = -1
    /\ tried = <<>>
    /\ df_processed = -1
    /\ missing_territories = {}
    /\ resolved_name = NoneStr
    /\ DateIdle
    /\ ForecastIdle
    /\ PipeIdle

\* lines 1063-1064
SkipEmptySheet ==
    /\ pc = "sheets"
    /\ sheets # <<>>
    /\ Head(sheets).fault = "empty"
    /\ sheets' = Tail(sheets)
    /\ UNCHANGED <<pc, all_long, df_rows, row_i, cur_area, route_sales_start, tried,
                   df_processed, missing_territories, resolved_name, dateVars,
                   forecastVars, pipeVars>>

\* lines 1067-1071
MonthlySheet ==
    /\ pc = "sheets"
    /\ sheets # <<>>
    /\ Head(sheets).fault # "empty"
    /\ Head(sheets).kind = "monthly"
    /\ all_long' = all_long \o process_monthly_comparison_sheet(Head(sheets))
    /\ sheets' = Tail(sheets)
    /\ UNCHANGED <<pc, df_rows, row_i, cur_area, route_sales_start, tried,
                   df_processed, missing_territories, resolved_name, dateVars,
                   forecastVars, pipeVars>>

\* lines 1074-1078
ReportSheet ==
    /\ pc = "sheets"
    /\ sheets # <<>>
    /\ Head(sheets).fault # "empty"
    /\ Head(sheets).kind = "report"
    /\ all_long' = all_long \o process_comparison_report_sheet(Head(sheets))
    /\ sheets' = Tail(sheets)
    /\ UNCHANGED <<pc, df_rows, row_i, cur_area, route_sales_start, tried,
                   df_processed, missing_territories, resolved_name, dateVars,
                   forecastVars, pipeVars>>

\* lines 1081-1085
YearlySheet ==
    /\ pc = "sheets"
    /\ sheets # <<>>
    /\ Head(sheets).fault # "empty"
    /\ Head(sheets).kind = "yearly"
    /\ all_long' = all_long \o process_territory_data_from_yearly_sheets(Head(sheets))
    /\ sheets' = Tail(sheets)
    /\ UNCHANGED <<pc, df_rows, row_i, cur_area, route_sales_start, tried,
                   df_processed, missing_territories, resolved_name, dateVars,
                   forecastVars, pipeVars>>

\* lines 1087-1191: an exception of the generic path ends the run with the
\* sheet, and the sheets behind it, where they are
GenericSheet ==
    /\ pc = "sheets"
    /\ sheets # <<>>
    /\ Head(sheets).fault # "empty"
    /\ Head(sheets).kind = "generic"
    /\ LET out == GenericOutcome(Head(sheets))
       IN  IF out.t = "raise"
           THEN pc' = "aborted" /\ UNCHANGED <<sheets, all_long>>
           ELSE /\ pc' = pc
                /\ sheets' = Tail(sheets)
                /\ all_long' = IF out.t = "append" THEN Append(all_long, out.long)
                               ELSE all_long
    /\ UNCHANGED <<df_rows, row_i, cur_area, route_sales_start, tried,
                   df_processed, missing_territories, resolved_name, dateVars,
                   forecastVars, pipeVars>>

\* lines 1193-1195: st.error and st.stop
EmptyStop ==
    /\ pc = "sheets"
    /\ sheets = <<>>
    /\ all_long = <<>>
    /\ pc' = "stopped"
    /\ UNCHANGED <<dateVars, forecastVars, pipeVars, sheetVars>>

\* line 1197: pd.concat(all_long, ignore_index=True)
ConcatAll ==
    /\ pc = "sheets"
    /\ sheets = <<>>
    /\ all_long # <<>>
    /\ long_all' = Flatten(all_long)
    /\ pc' = "concat"
    /\ UNCHANGED <<aggregate_level, profit_margin, targets_df, selected_areas, grp, todo,
                   all_fc, dateVars,
                   forecastVars, sheetVars>>

NextSheets ==
    \/ SkipEmptySheet
    \/ MonthlySheet
    \/ ReportSheet
    \/ YearlySheet
    \/ GenericSheet
    \/ EmptyStop
    \/ ConcatAll
    \/ Clean
    \/ AssignGroupKey
    \/ BuildGroups

SpecSheets == InitSheets /\ [][NextSheets]_vars

\* a sheet with nothing wrong and a dated value
Healthy(sheet) == sheet.fault = "none" /\ sheet.rows = "dated"

\* C13: a failure while one sheet is processed never ends the run: the run is
\* never aborted on a sheet while a sound sheet behind it is still waiting to
\* be processed
C13_FailureContained ==
    ~(/\ pc = "aborted"
      /\ \E i \in 2..Len(sheets) : Healthy(sheets[i]))

\* a record with a non-null date and a numeric sales value (its area is never
\* missing, line 1199 fills it in)
Canonical(r) == NotNaT(r.Date) /\ r.Sales.t = "num"

\* the records the sheets yielded
Yielded == Flatten(all_long)

\* C14: the run gets past the empty check and the caption, and on to the
\* grouping, only when some sheet has yielded a canonical record, and then the
\* dataset it groups is non-empty and canonical throughout; after st.stop
\* nothing has been yielded
C14_EmptyDataset ==
    /\ pc \in {"clean", "keyed", "forecast"} =>
          /\ \E i \in 1..Len(Yielded) : Canonical(Yielded[i])
          /\ pc \in {"clean", "keyed"} => Len(long_all) > 0
          /\ \A i \in 1..Len(long_all) : Canonical(long_all[i])
    /\ pc = "stopped" => Yielded = <<>> /\ long_all = <<>> /\ grp = <<>>

\* two sheets gave a frame each, none holds a dated record: the run ended at
\* the caption of line 1209 with nothing grouped
C14_Witness ==
    /\ pc = "error"
    /\ Len(all_long) = 2
    /\ \A i \in 1..Len(Yielded) : ~Canonical(Yielded[i])
    /\ grp = <<>>

-----------------------------------------------------------------------------
(* SpecWide: a sheet of the generic path from its accepted table to the keys *)

\* `p in s`, p and s as characters
InChars(pcs, sc) ==
    \E i \in 1..(Len(sc) - Len(pcs) + 1) : SubSeq(sc, i, i + Len(pcs) - 1) = pcs

\* any(char.isdigit() for char in sheet_name)
HasDigit(name) == \E i \in 1..Len(Chars(name)) : Chars(name)[i] \in Digits

\* str(col).lower() of the column headers of the model
LowerHeader(c) ==
    CASE c = "Particulars" -> "particulars"
      [] c = "Territory" -> "territory"
      [] c = "Year" -> "year"
      [] c = "April" -> "april"

\* val.upper() of the cells of a particulars column in the model
UpperCell(val) ==
    CASE val = "Kerala Zone" -> "KERALA ZONE"
      [] val = "Total" -> "TOTAL"

\* lines 226-228: '.', '-' and '_' become blanks, runs of blanks collapse
RECURSIVE SquashBlanks(_)
SquashBlanks(cs) ==
    IF Len(cs) = 0 THEN <<>>
    ELSE IF Head(cs) = " " /\ (Len(cs) = 1 \/ cs[2] = " ") THEN SquashBlanks(Tail(cs))
    ELSE <<Head(cs)>> \o SquashBlanks(Tail(cs))

RECURSIVE StripLeft(_)
StripLeft(cs) == IF Len(cs) > 0 /\ Head(cs) = " " THEN StripLeft(Tail(cs)) ELSE cs

MonthColKey(c) ==
    LET raw == Chars(LowerHeader(c))
        blank == [i \in 1..Len(raw) |-> IF raw[i] \in {".", "-", "_"} THEN " " ELSE raw[i]]
    IN  SquashBlanks(StripLeft(blank))

\* lines 231-241: the header is a month name, ends or begins with one, or
\* holds one and is at most 15 characters long
IsMonthCol(c) ==
    LET key == MonthColKey(c)
    IN  \E m \in MonthKeys :
           LET mc == Chars(m)
           IN  \/ key = mc
               \/ /\ Len(key) > Len(mc)
                  /\ SubSeq(key, Len(key) - Len(mc), Len(key)) = <<" ">> \o mc
               \/ /\ Len(key) > Len(mc)
                  /\ SubSeq(key, 1, Len(mc) + 1) = mc \o <<" ">>
               \/ InChars(mc, key) /\ Len(key) <= 15

\* guess_month_cols; the tables of the model hold one month-like header at
\* most, which the de-duplication and the fiscal ordering leave as it is
guess_month_cols(columns) == SelectSeq(columns, IsMonthCol)

\* the first header whose lower-cased text holds one of the keywords, or None
FirstHeaderWith(columns, keywords) ==
    LET hits == {i \in 1..Len(columns) :
                    \E k \in keywords : InChars(Chars(k), Chars(LowerHeader(columns[i])))}
    IN  IF hits = {} THEN NoneStr
        ELSE columns[CHOOSE i \in hits : \A j \in hits : i <= j]

\* detect_keys
detect_keys(columns) ==
    [area |-> FirstHeaderWith(columns, {"area", "region", "territory", "zone"}),
     state |-> FirstHeaderWith(columns, {"state"}),
     year |-> FirstHeaderWith(columns, {"year", "fy", "financial year", "fiscal", "yr"})]

area_keywords == {"KERALA", "KARNATAKA", "TAMIL", "ZONE", "REGION", "STATE", "MSD"}

\* lines 1166-1176: the first cell of a particulars-like column that holds an
\* area keyword, upper-cased; None when there is none
HarvestedArea(table) ==
    LET hasCol == \E i \in 1..Len(table.columns) :
                     InChars(Chars("particular"), Chars(LowerHeader(table.columns[i])))
        hits == {i \in 1..Len(table.rows) :
                    /\ table.rows[i].Particulars # "NaN"
                    /\ \E k \in area_keywords :
                          InChars(Chars(k), Chars(UpperCell(table.rows[i].Particulars)))}
    IN  IF hasCol /\ hits # {}
        THEN UpperCell(table.rows[CHOOSE i \in hits : \A j \in hits : i <= j].Particulars)
        ELSE NoneStr

\* line 1180: f"FY_{sheet_name.replace('-', '_')}"; a name with a digit and a
\* hyphen goes to the yearly parser (line 1081), so no name has a hyphen here
SheetNameArea(name) == IF HasDigit(name) THEN "FY_" \o name ELSE NoneStr

\* lines 1158-1181: the area column and the table after the area is settled
SettleArea(table, area_col) ==
    IF area_col # NoneStr THEN [area_col |-> area_col, rows |-> table.rows]
    ELSE LET label == IF HasDigit(table.name) /\ HarvestedArea(table) # NoneStr
                      THEN HarvestedArea(table)
                      ELSE SheetNameArea(table.name)
         IN  IF label = NoneStr THEN [area_col |-> NoneStr, rows |-> table.rows]
             ELSE [area_col |-> "Area",
                   rows |-> [i \in 1..Len(table.rows) |->
                                [table.rows[i] EXCEPT !.Area = label]]]

\* lines 1152-1190: the frame of the sheet, <<>> standing for `continue` too
\* (an accepted table has a month column, so line 1155 never continues)
GenericLong(table) ==
    LET month_cols == guess_month_cols(table.columns)
        keys == detect_keys(table.columns)
        settled == SettleArea(table, keys.area)
        long == long_from_wide(settled.rows, settled.area_col, keys.state, keys.year,
                               month_cols)
    IN  [i \in 1..Len(long) |->
            [Area |-> long[i].Area, State |-> long[i].State, FY |-> long[i].FY,
             MonthName |-> long[i].MonthName, Date |-> long[i].Date,
             Month |-> long[i].Month, Sales |-> long[i].Sales,
             SourceSheet |-> table.name]]

\* the most rows of a table in the model
MaxWideRows == 2

L_nan == <<"n", "a", "n">>

WideSheetNames == {"Sales2023", "Summary"}
WideKeyHeaders == {<<>>, <<"Particulars">>, <<"Territory">>, <<"Year">>,
                   <<"Particulars", "Territory">>, <<"Particulars", "Year">>,
                   <<"Territory", "Year">>, <<"Particulars", "Territory", "Year">>}

\* the rows of a table with the key headers keys: a column that the table does
\* not have reads as missing in every row
WideRows(keys) ==
    LET Has(h) == \E i \in 1..Len(keys) : keys[i] = h
    IN  [Area : IF Has("Territory") THEN {"KOLLAM", "NaN"} ELSE {"NaN"},
         State : {NoneStr},
         FY : IF Has("Year") THEN {L_2023_2024, L_nan} ELSE {L_None},
         Particulars : IF Has("Particulars") THEN {"Kerala Zone", "Total"} ELSE {"NaN"},
         cells : [{"April"} -> {Num(150000), Text}]]

WideTables ==
    UNION {UNION {[name : WideSheetNames, columns : {keys \o <<"April">>},
                   rows : [1..n -> WideRows(keys)]] : n \in 1..MaxWideRows} :
           keys \in WideKeyHeaders}

InitWide ==
    /\ pc = "sheets"
    /\ df_rows \in WideTables
    /\ sheets = <<df_rows.name>>
    /\ all_long = <<>>
    /\ row_i = 0
    /\ cur_area = NoneStr
    /\ route_sales_start = -1
    /\ tried = <<>>
    /\ df_processed = -1
    /\ missing_territories = {}
    /\ resolved_name = NoneStr
    /\ DateIdle
    /\ ForecastIdle
    /\ PipeIdle

\* lines 1152-1191 for the sheet whose accepted table is df_rows
WideSheet ==
    /\ pc = "sheets"
    /\ sheets # <<>>
    /\ all_long' = IF guess_month_cols(df_rows.columns) = <<>> THEN all_long
                   ELSE Append(all_long, GenericLong(df_rows))
    /\ sheets' = Tail(sheets)
    /\ UNCHANGED <<pc, df_rows, row_i, cur_area, route_sales_start, tried,
                   df_processed, missing_territories, resolved_name, dateVars,
                   forecastVars, pipeVars>>

NextWide ==
    \/ WideSheet
    \/ ConcatAll
    \/ Clean
    \/ AssignGroupKey
    \/ BuildGroups

SpecWide == InitWide /\ [][NextWide]_vars

C22_SynthesizedArea ==
    /\ (/\ detect_keys(df_rows.columns).area = NoneStr
        /\ HarvestedArea(df_rows) = NoneStr) =>
          \A i \in 1..Len(Yielded) : Yielded[i].Area = "FY_" \o df_rows.name
    /\ pc \in {"clean", "keyed"} =>
          \A i \in 1..Len(long_all) : long_all[i].Area \notin {"NaN", NoneStr}

-----------------------------------------------------------------------------
(* SpecDispatch: the parser each sheet of the workbook is handed to *)

excluded_sheets == {"2017-2018", "2018-2019 (Old)", "Sheet1", "Sheet2", "Sheet3"}

\* the sheet names of the model
DispatchNames ==
    {"Sheet1", "2017-2018", "2023-2024", "Monthly Comparison 2023-24",
     "Monthly Comparison Report", "Comparison Report 2023-24", "Summary", "Sales2023",
     "Q1-Plan"}

\* sheet_name.upper()
UpperName(name) ==
    CASE name = "Sheet1" -> "SHEET1"
      [] name = "Monthly Comparison 2023-24" -> "MONTHLY COMPARISON 2023-24"
      [] name = "Monthly Comparison Report" -> "MONTHLY COMPARISON REPORT"
      [] name = "Comparison Report 2023-24" -> "COMPARISON REPORT 2023-24"
      [] name = "Summary" -> "SUMMARY"
      [] name = "Sales2023" -> "SALES2023"
      [] name = "Q1-Plan" -> "Q1-PLAN"
      [] OTHER -> name

\* line 1058: the sheets of raw whose name is not excluded, in raw's order
relevant_sheets(raw) ==
    LET Kept(sheet) == sheet.name \notin excluded_sheets
    IN  SelectSeq(raw, Kept)

\* lines 1063-1087 without the `continue` of a special parser that returned
\* nothing: the sheet falls through to the tests below it
ParsersFor_NoContinue(sheet) ==
    LET up == UpperName(sheet.name)
        monthly == IF Contains(up, "MONTHLY COMPARISON") THEN <<"monthly">> ELSE <<>>
        report == IF Contains(up, "COMPARISON REPORT") THEN <<"report">> ELSE <<>>
        yearly == IF HasHyphenAndDigit(Chars(sheet.name)) THEN <<"yearly">> ELSE <<>>
        special == monthly \o report \o yearly
    IN  IF sheet.empty THEN <<>>
        ELSE IF special # <<>> /\ sheet.yields THEN <<Head(special)>>
        ELSE special \o <<"generic">>

\* lines 1063-1087: the parsers one turn of the loop calls for the sheet; each
\* branch ends in `continue`
ParsersFor(sheet) ==
    IF sheet.empty THEN <<>>
    ELSE IF Contains(UpperName(sheet.name), "MONTHLY COMPARISON") THEN <<"monthly">>
    ELSE IF Contains(UpperName(sheet.name), "COMPARISON REPORT") THEN <<"report">>
    ELSE IF HasHyphenAndDigit(Chars(sheet.name)) THEN <<"yearly">>
    ELSE <<"generic">>

\* the frames the sheet adds to all_long: one frame of one record when a parser
\* finds data in it
DispatchFrames(sheet) ==
    IF ParsersFor(sheet) # <<>> /\ sheet.yields
    THEN <<<<[Area |-> "KOLLAM", State |-> NoneStr, Date |-> Timestamp(2023, 11),
              Sales |-> Num(200000), SourceSheet |-> sheet.name]>>>>
    ELSE <<>>

\* raw: workbooks of sheets with distinct names; an empty sheet yields nothing
DispatchWorkbooks ==
    LET Sheet == {sh \in [name : DispatchNames, empty : BOOLEAN, yields : BOOLEAN] :
                     sh.empty => ~sh.yields}
    IN  UNION {{w \in [1..n -> Sheet] : \A i, j \in 1..n : w[i].name = w[j].name => i = j} :
               n \in 1..MaxSheets}

InitDispatch ==
    /\ pc = "dispatch"
    /\ sheets \in DispatchWorkbooks
    /\ row_i = 0
    /\ tried = <<>>
    /\ all_long = <<>>
    /\ df_rows = <<>>
    /\ cur_area = NoneStr
    /\ route_sales_start = -1
    /\ df_processed = -1
    /\ missing_territories = {}
    /\ resolved_name = NoneStr
    /\ DateIdle
    /\ ForecastIdle
    /\ PipeIdle

\* lines 1062-1191: one turn of the loop over relevant_sheets
DispatchSheet ==
    /\ pc = "dispatch"
    /\ row_i < Len(relevant_sheets(sheets))
    /\ row_i' = row_i + 1
    /\ LET sheet == relevant_sheets(sheets)[row_i']
           called == ParsersFor(sheet)
       IN  /\ tried' = tried \o [k \in 1..Len(called) |->
                                    [sheet |-> sheet.name, parser |-> called[k]]]
           /\ all_long' = all_long \o DispatchFrames(sheet)
    /\ UNCHANGED <<pc, sheets, df_rows, cur_area, route_sales_start, df_processed,
                   missing_territories, resolved_name, dateVars, forecastVars, pipeVars>>

\* line 1193: the loop is over
DispatchDone ==
    /\ pc = "dispatch"
    /\ row_i = Len(relevant_sheets(sheets))
    /\ pc' = IF all_long = <<>> THEN "stopped" ELSE "concat"
    /\ long_all' = Flatten(all_long)
    /\ UNCHANGED <<aggregate_level, profit_margin, targets_df, selected_areas, grp, todo,
                   all_fc, dateVars,
                   forecastVars, sheetVars>>

NextDispatch ==
    \/ DispatchSheet
    \/ DispatchDone

SpecDispatch == InitDispatch /\ [][NextDispatch]_vars

\* the parser the claim assigns to a sheet name: the first rule that matches
C26_Rule(name) ==
    IF Contains(UpperName(name), "MONTHLY COMPARISON") THEN "monthly"
    ELSE IF Contains(UpperName(name), "COMPARISON REPORT") THEN "report"
    ELSE IF (\E i \in 1..Len(Chars(name)) : Chars(name)[i] \in Digits)
            /\ (\E i \in 1..Len(Chars(name)) : Chars(name)[i] = "-") THEN "yearly"
    ELSE "generic"

\* the calls the loop has made for the sheet named name
C26_Calls(name) == {k \in 1..Len(tried) : tried[k].sheet = name}

\* C26: an excluded or an empty sheet is handed to no parser and has no record;
\* every other sheet the loop has passed was handed to exactly one parser, the
\* one of the first matching rule (monthly-comparison name, comparison-report
\* name, digit and hyphen, generic), also when that parser found nothing
C26_ExclusiveDispatch ==
    /\ \A i \in 1..Len(sheets) :
          (sheets[i].name \in excluded_sheets \/ sheets[i].empty) =>
              /\ C26_Calls(sheets[i].name) = {}
              /\ \A f \in 1..Len(all_long) : all_long[f][1].SourceSheet # sheets[i].name
    /\ \A i \in 1..row_i :
          LET sheet == relevant_sheets(sheets)[i]
          IN  ~sheet.empty =>
                 /\ Cardinality(C26_Calls(sheet.name)) = 1
                 /\ \A k \in C26_Calls(sheet.name) : tried[k].parser = C26_Rule(sheet.name)
    /\ pc \in {"stopped", "concat"} => row_i = Len(relevant_sheets(sheets))

\* 'Monthly Comparison 2023-24' matches the monthly and the yearly rule and
\* its parser found nothing: one call, of the monthly parser, and no frame
C26_Witness ==
    /\ row_i = 1
    /\ relevant_sheets(sheets)[1].name = "Monthly Comparison 2023-24"
    /\ ~relevant_sheets(sheets)[1].yields /\ ~relevant_sheets(sheets)[1].empty
    /\ tried = <<[sheet |-> "Monthly Comparison 2023-24", parser |-> "monthly"]>>
    /\ all_long = <<>>

-----------------------------------------------------------------------------
(* The area selection and the aggregation level *)

\* the sales of the rows of long_all in positions S, added up (NaN is skipped)
RECURSIVE C29_Sum(_)
C29_Sum(S) ==
    IF S = {} THEN 0
    ELSE LET i == CHOOSE k \in S : TRUE
         IN  (IF long_all[i].Sales.t = "num" THEN long_all[i].Sales.n ELSE 0)
             + C29_Sum(S \ {i})

\* the step of lines 1246-1254 leaves the rows alone under 'All Areas' and
\* otherwise keeps exactly the rows of the selected areas; every group total
\* is the sum of the kept rows of that group and month, and of nothing else
C29_FilterStep ==
    (pc = "keyed" /\ pc' = "forecast") =>
        LET kept == IF aggregate_level = "All Areas" THEN 1..Len(long_all)
                    ELSE {i \in 1..Len(long_all) : long_all[i].Area \in selected_areas}
        IN  /\ aggregate_level = "All Areas" => long_all' = long_all
            /\ Len(long_all') = Cardinality(kept)
            /\ \A i \in kept : \E j \in 1..Len(long_all') : long_all'[j] = long_all[i]
            /\ \A i \in kept : \E k \in 1..Len(grp') :
                  grp'[k].GroupKey = long_all[i].GroupKey /\ grp'[k].Date = long_all[i].Date
            /\ \A k \in 1..Len(grp') :
                  LET members == {i \in kept : /\ long_all[i].GroupKey = grp'[k].GroupKey
                                               /\ long_all[i].Date = grp'[k].Date}
                  IN  members # {} /\ grp'[k].Sales = C29_Sum(members)

\* under 'All Areas' every row carries the key "All", there is one group, and
\* the finished loop has made exactly one forecast, that of "All"
C29_OneGroup ==
    (aggregate_level = "All Areas" /\ pc \in {"forecast", "done", "reported"}) =>
        /\ \A i \in 1..Len(long_all) : long_all[i].GroupKey = "All"
        /\ \A i \in 1..Len(grp) : grp[i].GroupKey = "All"
        /\ pc \in {"done", "reported"} =>
              Len(all_fc) = 1 /\ all_fc[1].Group = "All"

\* C29: the area selection filters the rows only when the aggregation level is
\* not 'All Areas'; under 'All Areas' every row is kept whatever is selected,
\* the rows form the single group "All" and exactly one forecast is made
C29_SelectionAndAllAreas == [][C29_FilterStep]_vars /\ []C29_OneGroup

\* 'All Areas' with nothing selected and rows of two areas: both rows kept,
\* one forecast
C29_Witness ==
    /\ pc = "done"
    /\ aggregate_level = "All Areas"
    /\ selected_areas = {}
    /\ \E i, j \in 1..Len(long_all) : long_all[i].Area # long_all[j].Area
    /\ Len(all_fc) = 1

-----------------------------------------------------------------------------
(* The target table of the report *)

\* margins of the sidebar slider (line 805) that are whole numbers
Margins == {0, 15}

\* the month before the first forecast month
ReportLastMonths == {Timestamp(2024, 3), Timestamp(2025, 11)}

\* the groups of a run, in the order of the forecast loop
ReportGroups == {<<"All">>, <<"KANNUR">>, <<"KOLLAM">>, <<"KANNUR", "KOLLAM">>}

\* what the forecast loop leaves in all_fc: per group a forecast of h months
ReportForecasts(h) ==
    UNION {{[k \in 1..Len(gl) |->
               [Group |-> gl[k],
                df_fc |-> SeriesOf([i \in 1..h |-> Num(100 * k + i)],
                                   ForecastIndex(last[k], h))]] :
            last \in [1..Len(gl) -> ReportLastMonths]} : gl \in ReportGroups}

InitReport ==
    /\ pc = "done"
    /\ horizon \in 1..MaxHorizon
    /\ profit_margin \in Margins
    /\ all_fc \in ReportForecasts(horizon)
    /\ targets_df = <<>>
    /\ long_all = <<>>
    /\ aggregate_level = "Area"
    /\ selected_areas = {}
    /\ grp = <<>>
    /\ todo = <<>>
    /\ ts = <<>>
    /\ fc = <<>>
    /\ model = NoneStr
    /\ seasonal = NoneStr
    /\ raised = FALSE
    /\ DateIdle
    /\ SheetIdle

NextReport == MakeReport

SpecReport == InitReport /\ [][NextReport]_vars

\* the row of the target table written for the forecast in position k
C30_RowsOf(k) == {r \in 1..Len(targets_df) : targets_df[r].Area = all_fc[k].Group}

\* C30: the target table has one row per group with a forecast, and the row
\* holds one target for every forecast month, the forecast raised by the
\* profit margin and rounded to two decimals, for every horizon from 1 to 24
C30_OneTargetPerMonth ==
    pc = "reported" =>
        \A k \in 1..Len(all_fc) :
           LET df_fc == all_fc[k].df_fc
               n == IF horizon < Len(df_fc) THEN horizon ELSE Len(df_fc)
           IN  Len(df_fc) > 0 =>
                  /\ Cardinality(C30_RowsOf(k)) = 1
                  /\ \A r \in C30_RowsOf(k) :
                        /\ Cardinality(DOMAIN targets_df[r].targets) = n
                        /\ \A i \in 1..n :
                              targets_df[r].targets[TargetColumn(df_fc[i].Date)]
                                  = TargetValue(df_fc[i].v, profit_margin)

\* up to twelve forecast months every month has a column of its own
C30_WithinYear ==
    (pc = "reported" /\ horizon <= 12) =>
        \A r \in 1..Len(targets_df) : Cardinality(DOMAIN targets_df[r].targets) = horizon

\* a horizon of 24 months: the row has twelve targets
C30_Witness ==
    /\ pc = "reported"
    /\ horizon = MaxHorizon
    /\ Len(targets_df) = 2
    /\ Cardinality(DOMAIN targets_df[1].targets) = 12

====
